---------------------------- MODULE Spec2Model ----------------------------
(* State-machine model of the ev3dev-web-server browser client:            *)
(* the Device / AttributeSetter / AttributeSender classes and the          *)
(* window.onload closure (WebSocket handlers, sendToServer, the joystick   *)
(* timer) of the richer client script (src/unnamed/part_000).              *)
(*                                                                         *)
(* Conventions.  JavaScript values are tagged records: Null, Undefined,    *)
(* Str(s), Arr(<<s1, ...>>) and Obj(values, selected).  JavaScript objects *)
(* used as maps are functions whose DOMAIN is the key set; where the       *)
(* enumeration order of the keys matters (Object.entries / Object.values)  *)
(* they are sequences of <<key, value>> pairs in insertion order.  Option  *)
(* indexes are 1-based here, 0 standing for JavaScript's selectedIndex -1. *)
EXTENDS Integers, Sequences, FiniteSets, TLC

\* ------------------------------------------------------------------------
\* Bounds of the model (not program constants)

\* Number of sendToServer calls explored in one behaviour.
MaxEnqueues == 3

\* Largest value of the joystick timer's counter explored.
MaxCounter == 21

\* Number of joystick samples explored in one behaviour.
MaxSamples == 2

\* ------------------------------------------------------------------------
\* JavaScript values

Null == [t |-> "null"]
Undefined == [t |-> "undefined"]
Str(s) == [t |-> "str", s |-> s]
Arr(v) == [t |-> "arr", values |-> v]
Obj(v, sel) == [t |-> "obj", values |-> v, selected |-> sel]

\* value != null (loose inequality: false for null and undefined)
NotNullish(v) == v.t \notin {"null", "undefined"}

RECURSIVE Join(_)
\* Array.prototype.join(",") of an array of strings
Join(v) == IF Len(v) = 0 THEN ""
           ELSE IF Len(v) = 1 THEN v[1]
           ELSE v[1] \o "," \o Join(Tail(v))

\* String(value), as the DOM applies it when a value is assigned to
\* elem.value, elem.textContent or elem.innerHTML
ToStr(v) == CASE v.t = "str" -> v.s
              [] v.t = "null" -> "null"
              [] v.t = "undefined" -> "undefined"
              [] v.t = "arr" -> Join(v.values)
              [] OTHER -> "[object Object]"

\* obj[key] on an object used as a map: undefined when the key is absent
Get(obj, key) == IF key \in DOMAIN obj THEN obj[key] ELSE Undefined

\* obj[key] = value on an object used as a map
Put(obj, key, value) == [k \in DOMAIN obj \cup {key} |->
                            IF k = key THEN value ELSE obj[k]]

\* The empty object {}
EmptyObject == [k \in {} |-> Null]

\* ------------------------------------------------------------------------
\* The port table and the device classes

PORTS == << <<"sensor", "ev3-ports:in1", "1">>,
            <<"sensor", "ev3-ports:in2", "2">>,
            <<"sensor", "ev3-ports:in3", "3">>,
            <<"sensor", "ev3-ports:in4", "4">>,
            <<"motor", "ev3-ports:outA", "A">>,
            <<"motor", "ev3-ports:outB", "B">>,
            <<"motor", "ev3-ports:outC", "C">>,
            <<"motor", "ev3-ports:outD", "D">>,
            <<"led", "led:LEFT", "left">>,
            <<"led", "led:RIGHT", "right">> >>

\* The keys of the devices object after the initialization loop
DevicePorts == {PORTS[i][2] : i \in 1..Len(PORTS)}

PortEntry(port) == CHOOSE i \in 1..Len(PORTS) : PORTS[i][2] = port

\* this.constructor.getDeviceType() of the device at a port
getDeviceType(port) == PORTS[PortEntry(port)][1]

\* this.portName of the device at a port
portNameOf(port) == PORTS[PortEntry(port)][3]

\* attributeSetters of each device class: attribute name -> <<setter
\* class, class name of the element it is bound to>>
MotorSetters ==
    [a \in {"position", "driver_name", "duty_cycle_sp", "polarity",
            "position_sp", "speed_sp", "ramp_up_sp", "ramp_down_sp",
            "stop_action", "time_sp", "command"} |->
        CASE a = "position" -> <<"MotorPositionAttributeSetter", "positionDisplay">>
          [] a = "driver_name" -> <<"DriverNameAttributeSetter", "port">>
          [] a = "polarity" -> <<"PredefinedSelectAttributeSetter", "polarity">>
          [] a \in {"stop_action", "command"} -> <<"SelectAttributeSetter", a>>
          [] OTHER -> <<"InputAttributeSetter", a>>]

SensorSetters ==
    [a \in {"values", "driver_name", "mode", "command"} |->
        CASE a = "values" -> <<"SensorValuesAttributeSetter", "values">>
          [] a = "driver_name" -> <<"DriverNameAttributeSetter", "port">>
          [] a = "mode" -> <<"SelectAttributeSetter", "mode">>
          [] OTHER -> <<"InputAttributeSetter", "command">>]

LedSetters ==
    [a \in {"green", "red"} |->
        IF a = "green" THEN <<"InputAttributeSetter", "greenLed">>
        ELSE <<"InputAttributeSetter", "redLed">>]

\* attributeSenders of each device class: attribute name -> <<sender
\* class, input element, button element ("" when the class has none)>>
MotorSenders ==
    [a \in {"position", "duty_cycle_sp", "polarity", "position_sp",
            "speed_sp", "ramp_up_sp", "ramp_down_sp", "stop_action",
            "time_sp", "command"} |->
        CASE a = "position" ->
                <<"InputAttributeSenderOnButton", "positionInput", "sendPositionButton">>
          [] a = "command" ->
                <<"SelectAttributeSenderOnButton", "command", "sendCommandButton">>
          [] a \in {"polarity", "stop_action"} -> <<"SelectAttributeSender", a, "">>
          [] OTHER -> <<"InputAttributeSender", a, "">>]

SensorSenders ==
    [a \in {"mode", "command"} |->
        IF a = "mode" THEN <<"SelectAttributeSender", "mode", "">>
        ELSE <<"SelectAttributeSenderOnButton", "command", "sendCommandButton">>]

LedSenders ==
    [a \in {"green", "red"} |->
        IF a = "green" THEN <<"InputAttributeSender", "greenLed", "">>
        ELSE <<"InputAttributeSender", "redLed", "">>]

\* this.attributeSetters of the device at a port
attributeSetters(port) ==
    CASE getDeviceType(port) = "motor" -> MotorSetters
      [] getDeviceType(port) = "sensor" -> SensorSetters
      [] OTHER -> LedSetters

\* this.attributeSenders of the device at a port
attributeSenders(port) ==
    CASE getDeviceType(port) = "motor" -> MotorSenders
      [] getDeviceType(port) = "sensor" -> SensorSenders
      [] OTHER -> LedSenders

\* The elements of a device's card that a setter or a sender is bound to
CardElems(port) ==
    {attributeSetters(port)[a][2] : a \in DOMAIN attributeSetters(port)}
    \cup {attributeSenders(port)[a][2] : a \in DOMAIN attributeSenders(port)}
    \cup ({attributeSenders(port)[a][3] : a \in DOMAIN attributeSenders(port)}
          \ {""})

\* ------------------------------------------------------------------------
\* The elements of a card, and the attribute setters

\* The value of the initValue attribute that the page's template gives an
\* <input> (read by elem.getAttribute("initValue"))
initValue == "0"

\* The <option>s that the page's template gives the polarity <select>
PolarityOptions == <<"normal", "inversed">>

\* An element of a freshly cloned card, before any setter has touched it
TemplateElem(e, dis) ==
    [disabled |-> dis,
     value |-> "",
     options |-> IF e = "polarity" THEN PolarityOptions ELSE <<>>,
     selectedIndex |-> IF e = "polarity" THEN 1 ELSE 0,
     text |-> ""]

\* The first option whose text === value, 0 when there is none
MatchingOption(options, value) ==
    IF value.t = "str" /\ \E i \in 1..Len(options) : options[i] = value.s
    THEN CHOOSE i \in 1..Len(options) :
            /\ options[i] = value.s
            /\ \A j \in 1..(i - 1) : options[j] # value.s
    ELSE 0

\* The last option whose text === selected, 0 when there is none
LastMatchingOption(options, selected) ==
    IF selected.t = "str" /\ \E i \in 1..Len(options) : options[i] = selected.s
    THEN CHOOSE i \in 1..Len(options) :
            /\ options[i] = selected.s
            /\ \A j \in (i + 1)..Len(options) : options[j] # selected.s
    ELSE 0

\* AttributeSetter.set: the value to cache is the value itself
BaseSet(el, value) == [elem |-> el, ret |-> value]

InputAttributeSetter_set(el, value) ==
    BaseSet([el EXCEPT !.value = IF NotNullish(value) THEN ToStr(value)
                                 ELSE initValue],
            value)

PredefinedSelectAttributeSetter_set(el, value) ==
    BaseSet([el EXCEPT !.selectedIndex =
                IF NotNullish(value)
                THEN (IF MatchingOption(el.options, value) # 0
                      THEN MatchingOption(el.options, value)
                      ELSE el.selectedIndex)
                ELSE (IF Len(el.options) > 0 THEN 1 ELSE 0)],
            value)

\* Mutant: the list forms return the value as it came
SelectAttributeSetter_set_CachesList(el, value) ==
    IF value.t = "str"
    THEN [elem |-> [el EXCEPT !.selectedIndex =
                        IF MatchingOption(el.options, value) # 0
                        THEN MatchingOption(el.options, value)
                        ELSE el.selectedIndex],
          ret |-> value]
    ELSE IF NotNullish(value)
    THEN LET values == value.values
             selected == IF value.t = "arr" THEN Null ELSE value.selected
         IN  [elem |-> [el EXCEPT
                          !.options = values,
                          !.selectedIndex =
                              IF LastMatchingOption(values, selected) # 0
                              THEN LastMatchingOption(values, selected)
                              ELSE (IF Len(values) > 0 THEN 1 ELSE 0)],
              ret |-> value]
    ELSE BaseSet([el EXCEPT !.options = <<>>, !.selectedIndex = 0], value)

SelectAttributeSetter_set(el, value) ==
    IF value.t = "str"
    THEN [elem |-> [el EXCEPT !.selectedIndex =
                        IF MatchingOption(el.options, value) # 0
                        THEN MatchingOption(el.options, value)
                        ELSE el.selectedIndex],
          ret |-> value]
    ELSE IF NotNullish(value)
    THEN LET values == value.values
             selected == IF value.t = "arr" THEN Null ELSE value.selected
         IN  [elem |-> [el EXCEPT
                          !.options = values,
                          !.selectedIndex =
                              IF LastMatchingOption(values, selected) # 0
                              THEN LastMatchingOption(values, selected)
                              ELSE (IF Len(values) > 0 THEN 1 ELSE 0)],
              ret |-> selected]
    ELSE BaseSet([el EXCEPT !.options = <<>>, !.selectedIndex = 0], value)

DriverNameTable ==
    [d \in {"lego-ev3-us", "lego-ev3-gyro", "lego-ev3-color", "lego-ev3-touch",
            "lego-ev3-ir", "lego-ev3-m-motor", "lego-ev3-l-motor",
            "lego-nxt-temp", "lego-nxt-light", "lego-nxt-sound",
            "lego-nxt-us"} |->
        CASE d = "lego-ev3-us" -> "EV3 Ultrasonic Sensor"
          [] d = "lego-ev3-gyro" -> "EV3 Gyro Sensor"
          [] d = "lego-ev3-color" -> "EV3 Color Sensor"
          [] d = "lego-ev3-touch" -> "EV3 Touch Sensor"
          [] d = "lego-ev3-ir" -> "EV3 Infrared Sensor"
          [] d = "lego-ev3-m-motor" -> "EV3 Medium Servo Motor"
          [] d = "lego-ev3-l-motor" -> "EV3 Large Servo Motor"
          [] d = "lego-nxt-temp" -> "NXT Temperature Sensor"
          [] d = "lego-nxt-light" -> "NXT Light Sensor"
          [] d = "lego-nxt-sound" -> "NXT Sound Sensor"
          [] OTHER -> "NXT Ultrasonic Sensor"]

\* table[value] || value, displayed as a string
Translate(table, value) ==
    IF ToStr(value) \in DOMAIN table THEN table[ToStr(value)] ELSE ToStr(value)

DriverNameAttributeSetter_set(portName, el, value) ==
    BaseSet([el EXCEPT !.text =
                IF NotNullish(value)
                THEN Translate(DriverNameTable, value) \o " (" \o portName \o ")"
                ELSE "Port " \o portName],
            value)

MotorPositionAttributeSetter_set(el, value) ==
    BaseSet([el EXCEPT !.text = IF NotNullish(value) THEN ToStr(value)
                                ELSE "<None>"],
            value)

ColorTable ==
    [c \in {"0", "1", "2", "3", "4", "5", "6", "7"} |->
        CASE c = "0" -> "<span class=\"circle\"></span>No Color (0)"
          [] c = "1" -> "<span class=\"circle black-circle\"></span>Black (1)"
          [] c = "2" -> "<span class=\"circle blue-circle\"></span>Blue (2)"
          [] c = "3" -> "<span class=\"circle green-circle\"></span>Green (3)"
          [] c = "4" -> "<span class=\"circle yellow-circle\"></span>Yellow (4)"
          [] c = "5" -> "<span class=\"circle red-circle\"></span>Red (5)"
          [] c = "6" -> "<span class=\"circle white-circle-with-border\"></span>White (6)"
          [] OTHER -> "<span class=\"circle brown-circle\"></span>Brown (7)"]

TouchTable ==
    [c \in {"0", "1"} |-> IF c = "0" THEN "Released (0)" ELSE "Pressed (1)"]

\* Mutant: the translated text is returned for caching
SensorValuesAttributeSetter_set_CachesTranslation(av, el, value) ==
    LET translated ==
            IF NotNullish(value)
            THEN CASE Get(av, "driver_name") = Str("lego-ev3-color")
                        /\ Get(av, "mode") = Str("COL-COLOR") ->
                            Translate(ColorTable, value)
                   [] Get(av, "driver_name") = Str("lego-ev3-touch") ->
                            Translate(TouchTable, value)
                   [] OTHER -> ToStr(value)
            ELSE "<None>"
    IN  [elem |-> [el EXCEPT !.text = translated],
         ret |-> IF NotNullish(value) THEN Str(translated) ELSE value]

\* av is this.device.attributeValues at the moment of the call
SensorValuesAttributeSetter_set(av, el, value) ==
    BaseSet([el EXCEPT !.text =
                IF NotNullish(value)
                THEN CASE Get(av, "driver_name") = Str("lego-ev3-color")
                            /\ Get(av, "mode") = Str("COL-COLOR") ->
                                Translate(ColorTable, value)
                       [] Get(av, "driver_name") = Str("lego-ev3-touch") ->
                                Translate(TouchTable, value)
                       [] OTHER -> ToStr(value)
                ELSE "<None>"],
            value)

\* setter.set(value) for the setter of attribute attrName of the device at
\* port: the element afterwards and the value to store in attributeValues
Setter_set(port, attrName, av, el, value) ==
    LET cls == attributeSetters(port)[attrName][1]
    IN  CASE cls = "InputAttributeSetter" -> InputAttributeSetter_set(el, value)
          [] cls = "PredefinedSelectAttributeSetter" ->
                PredefinedSelectAttributeSetter_set(el, value)
          [] cls = "SelectAttributeSetter" -> SelectAttributeSetter_set(el, value)
          [] cls = "DriverNameAttributeSetter" ->
                DriverNameAttributeSetter_set(portNameOf(port), el, value)
          [] cls = "MotorPositionAttributeSetter" ->
                MotorPositionAttributeSetter_set(el, value)
          [] OTHER -> SensorValuesAttributeSetter_set(av, el, value)

\* ------------------------------------------------------------------------
\* State

VARIABLES
    \* ws.readyState: "connecting", "open" or "closed"
    wsState,
    \* let nonOverridableWebSocketMessages = []
    nonOverridableWebSocketMessages,
    \* let overridableWebSocketMessages = {}: <<identification, message>>
    \* pairs in insertion order
    overridableWebSocketMessages,
    \* let hasReceivedNext = false
    hasReceivedNext,
    \* device.attributeValues of the device at each port
    attributeValues,
    \* the elements of each device's card
    elems,
    \* ALERT_WEBSOCKET_CLOSED.hidden
    alertHidden,
    \* the joystick: let isDragging, currentX, currentY, hasPosChanged and
    \* counter (lengths in tenths of a pixel)
    isDragging,
    currentX,
    currentY,
    hasPosChanged,
    counter,
    \* history: every sendToServer call so far, [id, msg], in call order
    enqLog,
    \* history: every ws.send call so far: the array that was serialized,
    \* ws.readyState at the call and Len(enqLog) at the call
    sendCalls,
    \* history: the number of ws.send calls since the last "next" frame
    sendsSinceNext,
    \* history: a "next" frame has been received
    nextReceived,
    \* history: the event handler that ran last, with the channel state it
    \* started from
    lastOp

vars == <<wsState, nonOverridableWebSocketMessages,
          overridableWebSocketMessages, hasReceivedNext, attributeValues,
          elems, alertHidden, isDragging, currentX, currentY, hasPosChanged,
          counter, enqLog, sendCalls, sendsSinceNext, nextReceived,
          lastOp>>

joyVars == <<isDragging, currentX, currentY, hasPosChanged, counter>>

chanVars == <<nonOverridableWebSocketMessages, overridableWebSocketMessages,
              hasReceivedNext, enqLog, sendCalls, sendsSinceNext,
              nextReceived>>

devVars == <<attributeValues, elems>>

\* The channel state an event handler starts from
Pre == [ready |-> hasReceivedNext,
        nonOv |-> nonOverridableWebSocketMessages,
        ov |-> overridableWebSocketMessages,
        state |-> wsState,
        calls |-> Len(sendCalls)]

\* ------------------------------------------------------------------------
\* Construction (window.onload)

\* The card of a new device: the cloned template after every setter's
\* constructor has called this.set(null)
NewCard(port, dis) ==
    [e \in CardElems(port) |->
        IF \E a \in DOMAIN attributeSetters(port) :
                attributeSetters(port)[a][2] = e
        THEN LET a == CHOOSE b \in DOMAIN attributeSetters(port) :
                          attributeSetters(port)[b][2] = e
             IN  Setter_set(port, a, EmptyObject, TemplateElem(e, dis), Null).elem
        ELSE TemplateElem(e, dis)]

\* The templates' controls carry a disabled attribute or they do not
\* (the page is not part of the script): both are explored.
Init ==
    /\ wsState = "connecting"
    /\ nonOverridableWebSocketMessages = <<>>
    /\ overridableWebSocketMessages = <<>>
    /\ hasReceivedNext = FALSE
    /\ attributeValues = [p \in DevicePorts |-> EmptyObject]
    /\ \E dis \in BOOLEAN : elems = [p \in DevicePorts |-> NewCard(p, dis)]
    /\ alertHidden = TRUE
    /\ isDragging = FALSE
    /\ currentX = 0
    /\ currentY = 0
    /\ hasPosChanged = FALSE
    /\ counter = 0
    /\ enqLog = <<>>
    /\ sendCalls = <<>>
    /\ sendsSinceNext = 0
    /\ nextReceived = FALSE
    /\ lastOp = [op |-> "onload"]

\* ------------------------------------------------------------------------
\* Device

\* Mutant: AttributeSenderOnButton does not override setDisabled, the
\* buttons are left as they are
SendersSetDisabled_InputOnly(port, card, disabled) ==
    LET senders == attributeSenders(port)
        touched == {senders[a][2] : a \in DOMAIN senders}
    IN  [e \in DOMAIN card |->
            IF e \in touched THEN [card[e] EXCEPT !.disabled = disabled]
            ELSE card[e]]

\* setDisabled(disabled) of every sender of the device at port:
\* AttributeSender.setDisabled on the input element and, for the OnButton
\* senders, AttributeSenderOnButton.setDisabled on the button too
SendersSetDisabled(port, card, disabled) ==
    LET senders == attributeSenders(port)
        touched == {senders[a][2] : a \in DOMAIN senders}
                   \cup ({senders[a][3] : a \in DOMAIN senders} \ {""})
    IN  [e \in DOMAIN card |->
            IF e \in touched THEN [card[e] EXCEPT !.disabled = disabled]
            ELSE card[e]]

\* Mutant: the second loop passes false, the senders are enabled
Device_onDeviceDisconnected_EnablesSenders(port, card) ==
    LET setters == attributeSetters(port)
        afterSetters ==
            [e \in DOMAIN card |->
                IF \E a \in DOMAIN setters : setters[a][2] = e
                THEN LET a == CHOOSE b \in DOMAIN setters : setters[b][2] = e
                     IN  [Setter_set(port, a, EmptyObject, card[e], Null).elem
                            EXCEPT !.disabled = TRUE]
                ELSE card[e]]
    IN  [av |-> EmptyObject,
         card |-> SendersSetDisabled(port, afterSetters, FALSE)]

\* Device.onDeviceDisconnected: the device's attributeValues and card
\* afterwards (every setter has an element of its own)
Device_onDeviceDisconnected(port, card) ==
    LET setters == attributeSetters(port)
        afterSetters ==
            [e \in DOMAIN card |->
                IF \E a \in DOMAIN setters : setters[a][2] = e
                THEN LET a == CHOOSE b \in DOMAIN setters : setters[b][2] = e
                     IN  [Setter_set(port, a, EmptyObject, card[e], Null).elem
                            EXCEPT !.disabled = TRUE]
                ELSE card[e]]
    IN  [av |-> EmptyObject,
         card |-> SendersSetDisabled(port, afterSetters, TRUE)]

RECURSIVE UpdateLoop_StopsAtUnknown(_, _, _, _)
\* Mutant: break instead of continue when the attribute has no setter
UpdateLoop_StopsAtUnknown(port, av, card, values) ==
    IF values = <<>> THEN [av |-> av, card |-> card]
    ELSE LET attrName == values[1][1]
             attrValue == values[1][2]
             setters == attributeSetters(port)
         IN  IF attrName \notin DOMAIN setters
             THEN [av |-> av, card |-> card]
             ELSE LET e == setters[attrName][2]
                      r == Setter_set(port, attrName, av, card[e], attrValue)
                  IN  UpdateLoop_StopsAtUnknown(port,
                                 Put(av, attrName, r.ret),
                                 [card EXCEPT ![e] =
                                     [r.elem EXCEPT !.disabled = FALSE]],
                                 Tail(values))

RECURSIVE UpdateLoop_StoresUnknown(_, _, _, _)
\* Mutant: the value of an attribute without a setter is cached as it came
UpdateLoop_StoresUnknown(port, av, card, values) ==
    IF values = <<>> THEN [av |-> av, card |-> card]
    ELSE LET attrName == values[1][1]
             attrValue == values[1][2]
             setters == attributeSetters(port)
         IN  IF attrName \notin DOMAIN setters
             THEN UpdateLoop_StoresUnknown(port, Put(av, attrName, attrValue),
                                           card, Tail(values))
             ELSE LET e == setters[attrName][2]
                      r == Setter_set(port, attrName, av, card[e], attrValue)
                  IN  UpdateLoop_StoresUnknown(port,
                                 Put(av, attrName, r.ret),
                                 [card EXCEPT ![e] =
                                     [r.elem EXCEPT !.disabled = FALSE]],
                                 Tail(values))

RECURSIVE UpdateLoop(_, _, _, _)
\* The first loop of Device.updateValues over Object.entries(values):
\* values is the sequence of <<attrName, attrValue>> entries still to do
UpdateLoop(port, av, card, values) ==
    IF values = <<>> THEN [av |-> av, card |-> card]
    ELSE LET attrName == values[1][1]
             attrValue == values[1][2]
             setters == attributeSetters(port)
         IN  IF attrName \notin DOMAIN setters
             THEN UpdateLoop(port, av, card, Tail(values))
             ELSE LET e == setters[attrName][2]
                      r == Setter_set(port, attrName, av, card[e], attrValue)
                  IN  UpdateLoop(port,
                                 Put(av, attrName, r.ret),
                                 [card EXCEPT ![e] =
                                     [r.elem EXCEPT !.disabled = FALSE]],
                                 Tail(values))

\* Mutant: the cache is rebuilt from the update alone
Device_updateValues_ReplacesCache(port, av, card, values) ==
    LET r == UpdateLoop(port, EmptyObject, card, values)
    IN  [av |-> r.av, card |-> SendersSetDisabled(port, r.card, FALSE)]

\* Mutant: only the senders of the attributes in the update are enabled
Device_updateValues_TouchedSenders(port, av, card, values) ==
    LET r == UpdateLoop(port, av, card, values)
        senders == attributeSenders(port)
        touched == {senders[a][2] : a \in DOMAIN senders
                                      \cap {values[k][1] : k \in 1..Len(values)}}
    IN  [av |-> r.av,
         card |-> [e \in DOMAIN r.card |->
                    IF e \in touched THEN [r.card[e] EXCEPT !.disabled = FALSE]
                    ELSE r.card[e]]]

\* Device.updateValues: attributeValues and the card afterwards
Device_updateValues(port, av, card, values) ==
    LET r == UpdateLoop(port, av, card, values)
    IN  [av |-> r.av, card |-> SendersSetDisabled(port, r.card, FALSE)]

\* The message Device.onUpdateValue hands to funcSendToServer
UpdateMessage(port, attrName, newValue) ==
    [type |-> getDeviceType(port),
     port |-> port,
     attributes |-> (attrName :> newValue)]

\* Mutant: LedDevice does not override onUpdateValue
UpdateIdentification_Default(port) == Null

\* The identification Device.onUpdateValue / LedDevice.onUpdateValue passes
\* to funcSendToServer (Null: the parameter's default)
UpdateIdentification(port) ==
    IF getDeviceType(port) = "led" THEN Str(port) ELSE Null

\* ------------------------------------------------------------------------
\* The channel: sendToServer and the WebSocket handlers

\* Mutant: the assignment never replaces, every message is kept
OverridablePut_AlwaysAppends(ov, identification, message) ==
    Append(ov, <<identification, message>>)

\* overridableWebSocketMessages[identification] = message: a new key is
\* appended to the object's key order, an existing one keeps its place
OverridablePut(ov, identification, message) ==
    IF \E i \in 1..Len(ov) : ov[i][1] = identification
    THEN [i \in 1..Len(ov) |->
            IF ov[i][1] = identification THEN <<identification, message>>
            ELSE ov[i]]
    ELSE Append(ov, <<identification, message>>)

\* Mutant: the two push statements are swapped
DrainMessages_OverridableFirst(nonOv, ov) ==
    [i \in 1..Len(ov) |-> ov[i][2]] \o nonOv

\* Mutant: the second push statement is missing
DrainMessages_NonOverridableOnly(nonOv, ov) == nonOv

\* messages.push(...nonOverridableWebSocketMessages);
\* messages.push(...Object.values(overridableWebSocketMessages))
DrainMessages(nonOv, ov) == nonOv \o [i \in 1..Len(ov) |-> ov[i][2]]

\* JSON.stringify of the messages array: the array of the messages'
\* JSON objects; a property whose value is undefined is left out
JSONStringify(messages) ==
    [i \in 1..Len(messages) |->
        IF "attributes" \in DOMAIN messages[i]
        THEN [messages[i] EXCEPT !.attributes =
                [k \in {a \in DOMAIN messages[i].attributes :
                            messages[i].attributes[a] # Undefined} |->
                    messages[i].attributes[k]]]
        ELSE messages[i]]

\* One ws.send(data) call, as the history records it
SendCall(data, upto) == [data |-> data, readyState |-> wsState, upto |-> upto]

\* The queues after the first statement of sendToServer
Enqueue(message, identification) ==
    IF identification = Null
    THEN [nonOv |-> Append(nonOverridableWebSocketMessages, message),
          ov |-> overridableWebSocketMessages]
    ELSE [nonOv |-> nonOverridableWebSocketMessages,
          ov |-> OverridablePut(overridableWebSocketMessages,
                                identification.s, message)]

\* Mutant: the hasReceivedNext test is missing, every call sends
sendToServer_NoReadyCheck(message, identification) ==
    LET q == Enqueue(message, identification)
    IN  /\ enqLog' = Append(enqLog, [id |-> identification, msg |-> message])
        /\ nextReceived' = nextReceived
        /\ hasReceivedNext' = FALSE
        /\ nonOverridableWebSocketMessages' = <<>>
        /\ overridableWebSocketMessages' = <<>>
        /\ sendCalls' = Append(sendCalls,
                SendCall(JSONStringify(DrainMessages(q.nonOv, q.ov)),
                         Len(enqLog) + 1))
        /\ sendsSinceNext' = sendsSinceNext + 1

\* Mutant: hasReceivedNext is not reset by the direct send
sendToServer_KeepsReady(message, identification) ==
    LET q == Enqueue(message, identification)
    IN  /\ enqLog' = Append(enqLog, [id |-> identification, msg |-> message])
        /\ nextReceived' = nextReceived
        /\ IF hasReceivedNext
           THEN /\ hasReceivedNext' = TRUE
                /\ nonOverridableWebSocketMessages' = <<>>
                /\ overridableWebSocketMessages' = <<>>
                /\ sendCalls' = Append(sendCalls,
                        SendCall(JSONStringify(DrainMessages(q.nonOv, q.ov)),
                                 Len(enqLog) + 1))
                /\ sendsSinceNext' = sendsSinceNext + 1
           ELSE /\ nonOverridableWebSocketMessages' = q.nonOv
                /\ overridableWebSocketMessages' = q.ov
                /\ UNCHANGED <<hasReceivedNext, sendCalls, sendsSinceNext>>

\* function sendToServer(message, identification = null)
sendToServer(message, identification) ==
    LET q == Enqueue(message, identification)
    IN  /\ enqLog' = Append(enqLog, [id |-> identification, msg |-> message])
        /\ nextReceived' = nextReceived
        /\ IF hasReceivedNext
           THEN /\ hasReceivedNext' = FALSE
                /\ nonOverridableWebSocketMessages' = <<>>
                /\ overridableWebSocketMessages' = <<>>
                /\ sendCalls' = Append(sendCalls,
                        SendCall(JSONStringify(DrainMessages(q.nonOv, q.ov)),
                                 Len(enqLog) + 1))
                /\ sendsSinceNext' = sendsSinceNext + 1
           ELSE /\ nonOverridableWebSocketMessages' = q.nonOv
                /\ overridableWebSocketMessages' = q.ov
                /\ UNCHANGED <<hasReceivedNext, sendCalls, sendsSinceNext>>

\* ws "open" listener (it only logs)
WsOpen ==
    /\ wsState = "connecting"
    /\ wsState' = "open"
    /\ lastOp' = [op |-> "open", pre |-> Pre]
    /\ UNCHANGED <<joyVars, chanVars, devVars, alertHidden>>

\* ws "close" listener: the connection failed or was closed by the server
WsClose ==
    /\ wsState \in {"connecting", "open"}
    /\ wsState' = "closed"
    /\ alertHidden' = FALSE
    /\ lastOp' = [op |-> "close", pre |-> Pre]
    /\ UNCHANGED <<joyVars, chanVars, devVars>>

\* Mutant: nonOverridableWebSocketMessages is not reset after the drain
RecvNext_KeepsQueue ==
    /\ wsState = "open"
    /\ LET messages == DrainMessages(nonOverridableWebSocketMessages,
                                     overridableWebSocketMessages)
       IN  /\ nonOverridableWebSocketMessages' = nonOverridableWebSocketMessages
           /\ overridableWebSocketMessages' = <<>>
           /\ IF Len(messages) = 0
              THEN /\ hasReceivedNext' = TRUE
                   /\ sendCalls' = sendCalls
                   /\ sendsSinceNext' = 0
              ELSE /\ hasReceivedNext' = FALSE
                   /\ sendCalls' = Append(sendCalls,
                            SendCall(JSONStringify(messages), Len(enqLog)))
                   /\ sendsSinceNext' = 1
    /\ nextReceived' = TRUE
    /\ lastOp' = [op |-> "next", pre |-> Pre]
    /\ UNCHANGED <<joyVars, wsState, enqLog, devVars, alertHidden>>

\* Mutant: hasReceivedNext is not set when there is nothing to send
RecvNext_NeverReady ==
    /\ wsState = "open"
    /\ LET messages == DrainMessages(nonOverridableWebSocketMessages,
                                     overridableWebSocketMessages)
       IN  /\ nonOverridableWebSocketMessages' = <<>>
           /\ overridableWebSocketMessages' = <<>>
           /\ hasReceivedNext' = FALSE
           /\ IF Len(messages) = 0
              THEN /\ sendCalls' = sendCalls
                   /\ sendsSinceNext' = 0
              ELSE /\ sendCalls' = Append(sendCalls,
                            SendCall(JSONStringify(messages), Len(enqLog)))
                   /\ sendsSinceNext' = 1
    /\ nextReceived' = TRUE
    /\ lastOp' = [op |-> "next", pre |-> Pre]
    /\ UNCHANGED <<joyVars, wsState, enqLog, devVars, alertHidden>>

\* Mutant: the queues are reset before they are copied into messages
RecvNext_ClearsBeforeDrain ==
    /\ wsState = "open"
    /\ nonOverridableWebSocketMessages' = <<>>
    /\ overridableWebSocketMessages' = <<>>
    /\ hasReceivedNext' = TRUE
    /\ sendCalls' = sendCalls
    /\ sendsSinceNext' = 0
    /\ nextReceived' = TRUE
    /\ lastOp' = [op |-> "next", pre |-> Pre]
    /\ UNCHANGED <<joyVars, wsState, enqLog, devVars, alertHidden>>

\* ws "message" listener, event.data === "next"
RecvNext ==
    /\ wsState = "open"
    /\ LET messages == DrainMessages(nonOverridableWebSocketMessages,
                                     overridableWebSocketMessages)
       IN  /\ nonOverridableWebSocketMessages' = <<>>
           /\ overridableWebSocketMessages' = <<>>
           /\ IF Len(messages) = 0
              THEN /\ hasReceivedNext' = TRUE
                   /\ sendCalls' = sendCalls
                   /\ sendsSinceNext' = 0
              ELSE /\ hasReceivedNext' = FALSE
                   /\ sendCalls' = Append(sendCalls,
                            SendCall(JSONStringify(messages), Len(enqLog)))
                   /\ sendsSinceNext' = 1
    /\ nextReceived' = TRUE
    /\ lastOp' = [op |-> "next", pre |-> Pre]
    /\ UNCHANGED <<joyVars, wsState, enqLog, devVars, alertHidden>>

RECURSIVE DisconnectLoop(_, _, _)
\* for (let disconnectedPort of deviceData)
\*     devices[disconnectedPort].onDeviceDisconnected();
\* devices[p] is undefined for a port that is not in the table: the call
\* throws a TypeError, which ends the handler
DisconnectLoop(av, el, ports) ==
    IF ports = <<>> THEN [av |-> av, elems |-> el, threw |-> FALSE]
    ELSE IF ports[1] \notin DevicePorts
    THEN [av |-> av, elems |-> el, threw |-> TRUE]
    ELSE LET r == Device_onDeviceDisconnected(ports[1], el[ports[1]])
         IN  DisconnectLoop([av EXCEPT ![ports[1]] = r.av],
                            [el EXCEPT ![ports[1]] = r.card],
                            Tail(ports))

RECURSIVE EntriesLoop(_, _, _)
\* for (let [port, deviceData] of Object.entries(data)) of the "message"
\* listener: entries is the sequence of <<port, deviceData>> still to do
EntriesLoop(av, el, entries) ==
    IF entries = <<>> THEN [av |-> av, elems |-> el, threw |-> FALSE]
    ELSE LET port == entries[1][1]
             deviceData == entries[1][2]
         IN  IF port = "disconnected_devices"
             THEN LET r == DisconnectLoop(av, el, deviceData)
                  IN  IF r.threw THEN r
                      ELSE EntriesLoop(r.av, r.elems, Tail(entries))
             ELSE IF port \notin DevicePorts
             THEN [av |-> av, elems |-> el, threw |-> TRUE]
             ELSE LET r == Device_updateValues(port, av[port], el[port],
                                               deviceData)
                  IN  EntriesLoop([av EXCEPT ![port] = r.av],
                                  [el EXCEPT ![port] = r.card],
                                  Tail(entries))

\* ws "message" listener, event.data a snapshot frame whose JSON text
\* parses to the object with the given entries
RecvFrame(entries) ==
    /\ wsState = "open"
    /\ LET r == EntriesLoop(attributeValues, elems, entries)
       IN  /\ attributeValues' = r.av
           /\ elems' = r.elems
           /\ lastOp' = [op |-> "frame", entries |-> entries,
                         threw |-> r.threw, pre |-> Pre,
                         preAv |-> attributeValues,
                         preElems |-> elems,
                         preEnabled |-> {p \in DevicePorts :
                                            \A e \in CardElems(p) :
                                                ~elems[p][e].disabled}]
    /\ UNCHANGED <<joyVars, wsState, chanVars, alertHidden>>

\* Mutant: hasReceivedNext = false is executed before the frame is parsed
RecvMalformed_ResetsReady(data) ==
    /\ wsState = "open"
    /\ data # "next"
    /\ hasReceivedNext' = FALSE
    /\ lastOp' = [op |-> "malformed", data |-> data, pre |-> Pre,
                  preAv |-> attributeValues, preElems |-> elems]
    /\ UNCHANGED <<joyVars, wsState, nonOverridableWebSocketMessages,
                   overridableWebSocketMessages, enqLog, sendCalls,
                   sendsSinceNext, nextReceived, devVars, alertHidden>>

\* ws "message" listener, event.data a text that is neither "next" nor
\* JSON: JSON.parse(event.data) throws a SyntaxError, which ends the
\* listener at its first statement; the listener stays registered
RecvMalformed(data) ==
    /\ wsState = "open"
    /\ data # "next"
    /\ lastOp' = [op |-> "malformed", data |-> data, pre |-> Pre,
                  preAv |-> attributeValues, preElems |-> elems]
    /\ UNCHANGED <<joyVars, wsState, chanVars, devVars, alertHidden>>

\* ------------------------------------------------------------------------
\* The user's gestures on a card and the attribute senders

\* Mutant: the value is sent but not cached
onUpdateValue_NoCache(port, attrName, newValue) ==
    /\ attributeValues' = attributeValues
    /\ sendToServer(UpdateMessage(port, attrName, newValue),
                    UpdateIdentification(port))

\* Device.onUpdateValue / LedDevice.onUpdateValue, called by a sender's
\* event listener
onUpdateValue(port, attrName, newValue) ==
    /\ attributeValues' =
          [attributeValues EXCEPT ![port] = Put(@, attrName, newValue)]
    /\ sendToServer(UpdateMessage(port, attrName, newValue),
                    UpdateIdentification(port))

\* The user types v into the <input> of an InputAttributeSender: the
\* "input" event calls onUpdateValue(name, inputElem.value)
InputEvent(port, attrName, v) ==
    LET sender == attributeSenders(port)[attrName]
    IN  /\ sender[1] = "InputAttributeSender"
        /\ ~elems[port][sender[2]].disabled
        /\ Len(enqLog) < MaxEnqueues
        /\ elems' = [elems EXCEPT ![port][sender[2]].value = v]
        /\ onUpdateValue(port, attrName, Str(v))
        /\ lastOp' = [op |-> "input", port |-> port, attrName |-> attrName,
                      value |-> Str(v), pre |-> Pre]
        /\ UNCHANGED <<joyVars, wsState, alertHidden>>

\* The user picks option i of the <select> of a SelectAttributeSender: the
\* "change" event calls onUpdateValue(name, options[selectedIndex].text)
ChangeEvent(port, attrName, i) ==
    LET sender == attributeSenders(port)[attrName]
        el == elems[port][sender[2]]
    IN  /\ sender[1] = "SelectAttributeSender"
        /\ ~el.disabled
        /\ i \in 1..Len(el.options)
        /\ i # el.selectedIndex
        /\ Len(enqLog) < MaxEnqueues
        /\ elems' = [elems EXCEPT ![port][sender[2]].selectedIndex = i]
        /\ onUpdateValue(port, attrName, Str(el.options[i]))
        /\ lastOp' = [op |-> "change", port |-> port, attrName |-> attrName,
                      value |-> Str(el.options[i]), pre |-> Pre]
        /\ UNCHANGED <<joyVars, wsState, alertHidden>>

\* The user types v into the <input> of an InputAttributeSenderOnButton:
\* no listener is registered on the input itself
TypeInput(port, attrName, v) ==
    LET sender == attributeSenders(port)[attrName]
    IN  /\ sender[1] = "InputAttributeSenderOnButton"
        /\ ~elems[port][sender[2]].disabled
        /\ elems[port][sender[2]].value # v
        /\ elems' = [elems EXCEPT ![port][sender[2]].value = v]
        /\ lastOp' = [op |-> "type", port |-> port, attrName |-> attrName,
                      value |-> Str(v), pre |-> Pre]
        /\ UNCHANGED <<joyVars, wsState, chanVars, attributeValues, alertHidden>>

\* The user picks option i of the <select> of a
\* SelectAttributeSenderOnButton: no listener is registered on the select
PickOption(port, attrName, i) ==
    LET sender == attributeSenders(port)[attrName]
        el == elems[port][sender[2]]
    IN  /\ sender[1] = "SelectAttributeSenderOnButton"
        /\ ~el.disabled
        /\ i \in 1..Len(el.options)
        /\ i # el.selectedIndex
        /\ elems' = [elems EXCEPT ![port][sender[2]].selectedIndex = i]
        /\ lastOp' = [op |-> "pick", port |-> port, attrName |-> attrName,
                      value |-> Str(el.options[i]), pre |-> Pre]
        /\ UNCHANGED <<joyVars, wsState, chanVars, attributeValues, alertHidden>>

\* The user clicks the button of an AttributeSenderOnButton: the "click"
\* listener calls onUpdateValue(name, getValue()).  getValue() of the
\* select variant throws when no option is selected (options[-1] is
\* undefined), which ends the listener before onUpdateValue.
ButtonClick(port, attrName) ==
    LET sender == attributeSenders(port)[attrName]
        el == elems[port][sender[2]]
    IN  /\ sender[1] \in {"InputAttributeSenderOnButton",
                          "SelectAttributeSenderOnButton"}
        /\ ~elems[port][sender[3]].disabled
        /\ Len(enqLog) < MaxEnqueues
        /\ IF sender[1] = "SelectAttributeSenderOnButton" /\ el.selectedIndex = 0
           THEN /\ lastOp' = [op |-> "click", port |-> port,
                              attrName |-> attrName, value |-> Undefined,
                              pre |-> Pre]
                /\ UNCHANGED <<chanVars, attributeValues>>
           ELSE LET value == IF sender[1] = "InputAttributeSenderOnButton"
                             THEN Str(el.value)
                             ELSE Str(el.options[el.selectedIndex])
                IN  /\ onUpdateValue(port, attrName, value)
                    /\ lastOp' = [op |-> "click", port |-> port,
                                  attrName |-> attrName, value |-> value,
                                  pre |-> Pre]
        /\ UNCHANGED <<joyVars, wsState, elems, alertHidden>>

\* ------------------------------------------------------------------------
\* Steering with the joystick.  Lengths are in tenths of a pixel, which
\* keeps circleRadius / 100 an integer.

\* circle.clientHeight, as the page lays the steering circle out
clientHeight == 4200

\* circleRadius = circle.clientHeight / 2, set by resize() at load
circleRadius == clientHeight \div 2

\* counter > 20: the timer callbacks between two samples
samplePeriod == 20

Abs(n) == IF n < 0 THEN 0 - n ELSE n

\* The integer part of Math.sqrt(n)
ISqrt(n) == CHOOSE r \in 0..n : r * r <= n /\ (r + 1) * (r + 1) > n

\* Math.sqrt(x * x + y * y); exact when the point is on an axis
Distance(x, y) ==
    IF y = 0 THEN Abs(x) ELSE IF x = 0 THEN Abs(y) ELSE ISqrt(x * x + y * y)

\* The quotient n / d of two lengths, as the pair of its terms
Ratio(n, d) == [num |-> n, den |-> d]

\* setPosition(event): the position for a pointer at offset <<ox, oy>> in
\* the circle, after the dead zones around the axes and the clamp to
\* circleRadiusSmaller = circle.clientHeight / 2.1
setPosition(ox, oy) ==
    LET x0 == ox - circleRadius
        y0 == oy - circleRadius
        x1 == IF Abs(x0) * 10 < circleRadius THEN 0 ELSE x0
        y1 == IF Abs(y0) * 20 < circleRadius THEN 0 ELSE y0
        distance == Distance(x1, y1)
    IN  IF distance * 21 > clientHeight * 10
        THEN [x |-> (x1 * clientHeight * 10) \div (21 * distance),
              y |-> (y1 * clientHeight * 10) \div (21 * distance)]
        ELSE [x |-> x1, y |-> y1]

\* The first statement of the timer callback: the released joystick moves
\* back towards the middle by circleRadius / 100
moveBack(x, y) ==
    LET distance == Distance(x, y)
        x1 == (x * (distance * 100 - circleRadius)) \div (distance * 100)
        y1 == (y * (distance * 100 - circleRadius)) \div (distance * 100)
    IN  [x |-> IF Abs(x1) * 100 < circleRadius THEN 0 ELSE x1,
         y |-> IF Abs(y1) * 100 < circleRadius THEN 0 ELSE y1]

\* The message the timer callback hands to sendToServer
JoystickMessage(x, y) ==
    [type |-> "rc-joystick:set-pos",
     x |-> Ratio(x, circleRadius),
     y |-> Ratio(0 - y, circleRadius)]

\* dragStart: "mousedown" or "touchstart" on the circle at an offset
DragStart(o) ==
    /\ isDragging' = TRUE
    /\ currentX' = setPosition(o[1], o[2]).x
    /\ currentY' = setPosition(o[1], o[2]).y
    /\ hasPosChanged' = TRUE
    /\ lastOp' = [op |-> "dragstart", offset |-> o, pre |-> Pre]
    /\ UNCHANGED <<wsState, chanVars, devVars, alertHidden, counter>>

\* drag: "mousemove" or "touchmove" on the circle at an offset
Drag(o) ==
    /\ IF isDragging
       THEN /\ currentX' = setPosition(o[1], o[2]).x
            /\ currentY' = setPosition(o[1], o[2]).y
            /\ hasPosChanged' = TRUE
       ELSE UNCHANGED <<currentX, currentY, hasPosChanged>>
    /\ lastOp' = [op |-> "drag", offset |-> o, pre |-> Pre]
    /\ UNCHANGED <<wsState, chanVars, devVars, alertHidden, isDragging,
                   counter>>

\* dragEnd: "mouseup", "touchend" or "touchcancel" on the circle
DragEnd ==
    /\ isDragging' = FALSE
    /\ lastOp' = [op |-> "dragend", pre |-> Pre]
    /\ UNCHANGED <<wsState, chanVars, devVars, alertHidden, currentX,
                   currentY, hasPosChanged, counter>>

\* The setInterval callback (every 10 ms).  The callbacks that neither
\* move the joystick nor send are counted up to MaxCounter.
TimerTick ==
    LET moves == ~isDragging /\ (currentX # 0 \/ currentY # 0)
        pos == IF moves THEN moveBack(currentX, currentY)
               ELSE [x |-> currentX, y |-> currentY]
        changed == hasPosChanged \/ moves
        sends == counter + 1 > samplePeriod /\ changed
    IN  /\ sends \/ counter < MaxCounter
        /\ sends => Len(enqLog) < MaxSamples
        /\ currentX' = pos.x
        /\ currentY' = pos.y
        /\ IF sends
           THEN /\ counter' = 0
                /\ hasPosChanged' = FALSE
                /\ sendToServer(JoystickMessage(pos.x, pos.y),
                                Str("rc-joystick:set-pos"))
           ELSE /\ counter' = counter + 1
                /\ hasPosChanged' = changed
                /\ UNCHANGED chanVars
        /\ lastOp' = [op |-> "timer", sent |-> sends, pre |-> Pre]
        /\ UNCHANGED <<wsState, devVars, alertHidden, isDragging>>

\* ------------------------------------------------------------------------
\* The inputs explored, and the specifications

\* Option indexes the user may pick in a <select>
OptionIndexes == 1..2

\* Snapshot frames the server sends (each the sequence of the entries of
\* the parsed object)
ChannelFrames ==
    { << <<"ev3-ports:outA", << <<"duty_cycle_sp", Str("10")>> >> >>,
         <<"led:LEFT", << <<"green", Str("255")>> >> >>,
         <<"led:RIGHT", << <<"green", Str("255")>> >> >> >> }

\* What the user types into the <input>s with an "input" listener:
\* <<port, attribute name, text>>
ChannelInputs ==
    { <<"ev3-ports:outA", "duty_cycle_sp", "42">>,
      <<"led:LEFT", "green", "42">>,
      <<"led:LEFT", "red", "7">>,
      <<"led:RIGHT", "green", "42">> }

\* The send buttons the user clicks: <<port, attribute name>>
ChannelClicks == { <<"ev3-ports:outA", "position">> }

\* One event of the page's event loop
Next ==
    \/ WsOpen
    \/ WsClose
    \/ RecvNext
    \/ \E f \in ChannelFrames : RecvFrame(f)
    \/ \E e \in ChannelInputs : InputEvent(e[1], e[2], e[3])
    \/ \E e \in ChannelClicks : ButtonClick(e[1], e[2])

Spec == Init /\ [][Next]_vars

\* What the user types while the connection lasts; the connection stays
\* open once it is, and the server sends "next" when
\* the page loads and after every batch it has processed: a "next" frame
\* that is due is eventually delivered.
LiveInputs ==
    { <<"ev3-ports:outA", "duty_cycle_sp", "42">>,
      <<"led:LEFT", "green", "42">>,
      <<"led:LEFT", "red", "7">> }

LiveNext ==
    \/ WsOpen
    \/ RecvNext
    \/ \E f \in ChannelFrames : RecvFrame(f)
    \/ \E e \in LiveInputs : InputEvent(e[1], e[2], e[3])

LiveSpec ==
    Init /\ [][LiveNext]_vars /\ WF_vars(WsOpen) /\ WF_vars(RecvNext)

\* Snapshot frames for the device model: an update of a sensor, a motor
\* and an LED; disconnect notices; a notice followed by an update of the
\* same port; a notice naming a port that is not in the table
DeviceFrames ==
    { << <<"ev3-ports:in1",
           << <<"driver_name", Str("lego-ev3-color")>>,
              <<"mode", Obj(<<"COL-REFLECT", "COL-COLOR">>, Str("COL-COLOR"))>>,
              <<"values", Str("3")>> >> >>,
         <<"ev3-ports:outA",
           << <<"position", Str("5")>>,
              <<"duty_cycle_sp", Str("10")>>,
              <<"command", Arr(<<"run-forever", "stop">>)>> >> >>,
         <<"led:LEFT", << <<"green", Str("255")>> >> >> >>,
      << <<"disconnected_devices",
           <<"ev3-ports:in1", "ev3-ports:outA", "led:LEFT">> >> >>,
      << <<"disconnected_devices", <<"ev3-ports:outA">> >>,
         <<"ev3-ports:outA", << <<"position", Str("6")>> >> >> >>,
      << <<"disconnected_devices",
           <<"led:LEFT", "ev3-ports:in9", "ev3-ports:outA">> >> >> }

DeviceInputs ==
    { <<"ev3-ports:outA", "duty_cycle_sp", "42">>,
      <<"led:LEFT", "green", "7">> }

\* The <select>s the user operates: <<port, attribute name>>
DeviceSelects == { <<"ev3-ports:in1", "mode">> }

\* The send-on-button controls the user edits without pressing the button:
\* the text typed into the position input, the option picked in the command
\* <select>
DeviceTyped == { <<"ev3-ports:outA", "position", "7">> }

DevicePicks == { <<"ev3-ports:outA", "command">> }

\* The events of the device model: snapshot frames and the user's gestures
\* on the cards of one sensor, one motor and one LED
DevNext ==
    \/ WsOpen
    \/ \E f \in DeviceFrames : RecvFrame(f)
    \/ \E e \in DeviceInputs : InputEvent(e[1], e[2], e[3])
    \/ \E e \in DeviceSelects, i \in OptionIndexes : ChangeEvent(e[1], e[2], i)
    \/ \E e \in DeviceTyped : TypeInput(e[1], e[2], e[3])
    \/ \E e \in DevicePicks, i \in OptionIndexes : PickOption(e[1], e[2], i)

DevSpec == Init /\ [][DevNext]_vars

\* Snapshot frames for the updateValues model: an update of a sensor, a
\* motor and an LED with every shape of value; a payload with an attribute
\* name the device has no setter for between two it has; an empty payload;
\* a payload of unknown names only; a disconnect notice; a select's
\* selected option sent as a bare string; a frame whose first key is a
\* port that is not in the table
UpdateFrames ==
    { << <<"ev3-ports:in1",
           << <<"driver_name", Str("lego-ev3-color")>>,
              <<"mode", Obj(<<"COL-REFLECT", "COL-COLOR">>, Str("COL-COLOR"))>>,
              <<"values", Str("3")>> >> >>,
         <<"ev3-ports:outA",
           << <<"position", Str("5")>>,
              <<"duty_cycle_sp", Str("10")>>,
              <<"command", Arr(<<"run-forever", "stop">>)>> >> >>,
         <<"led:LEFT", << <<"green", Str("255")>> >> >> >>,
      << <<"ev3-ports:outA",
           << <<"speed_sp", Str("20")>>,
              <<"address", Str("ev3-ports:outA")>>,
              <<"position", Str("6")>> >> >> >>,
      << <<"ev3-ports:outA", <<>> >> >>,
      << <<"led:LEFT", << <<"brightness", Str("1")>> >> >> >>,
      << <<"disconnected_devices", <<"ev3-ports:outA", "led:LEFT">> >> >>,
      << <<"ev3-ports:in1", << <<"mode", Str("COL-REFLECT")>> >> >> >>,
      << <<"ev3-ports:in9", << <<"values", Str("1")>> >> >>,
         <<"ev3-ports:in1", << <<"values", Str("4")>> >> >> >> }

UpdateInputs ==
    { <<"ev3-ports:outA", "duty_cycle_sp", "42">>,
      <<"led:LEFT", "red", "7">> }

\* The events of the updateValues model
UpdNext ==
    \/ WsOpen
    \/ \E f \in UpdateFrames : RecvFrame(f)
    \/ \E e \in UpdateInputs : InputEvent(e[1], e[2], e[3])

UpdSpec == Init /\ [][UpdNext]_vars

\* Edits of a motor's duty-cycle slider and of an LED's two sliders
KeyInputs ==
    { <<"ev3-ports:outA", "duty_cycle_sp", "42">>,
      <<"ev3-ports:outA", "duty_cycle_sp", "43">>,
      <<"led:LEFT", "green", "42">>,
      <<"led:LEFT", "red", "7">> }

\* The <select> with an immediate sender the user operates
KeySelects == { <<"ev3-ports:outA", "polarity">> }

\* The events of the model of the senders' identifications
KeyNext ==
    \/ WsOpen
    \/ RecvNext
    \/ \E f \in ChannelFrames : RecvFrame(f)
    \/ \E e \in KeyInputs : InputEvent(e[1], e[2], e[3])
    \/ \E e \in KeySelects, i \in OptionIndexes : ChangeEvent(e[1], e[2], i)

KeySpec == Init /\ [][KeyNext]_vars

\* Snapshot frames for the model of the cached edits: an update of a
\* sensor, a motor and an LED, and the notice of their disconnection
CacheFrames ==
    { << <<"ev3-ports:in1",
           << <<"mode", Obj(<<"COL-REFLECT", "COL-COLOR">>, Str("COL-COLOR"))>> >> >>,
         <<"ev3-ports:outA", << <<"duty_cycle_sp", Str("10")>> >> >>,
         <<"led:LEFT", << <<"green", Str("255")>> >> >> >>,
      << <<"disconnected_devices",
           <<"ev3-ports:in1", "ev3-ports:outA", "led:LEFT">> >> >> }

CacheInputs ==
    { <<"ev3-ports:outA", "duty_cycle_sp", "42">>,
      <<"led:LEFT", "red", "7">> }

CacheSelects == { <<"ev3-ports:in1", "mode">> }

\* The events of the model of the cached edits
CacheNext ==
    \/ WsOpen
    \/ RecvNext
    \/ \E f \in CacheFrames : RecvFrame(f)
    \/ \E e \in CacheInputs : InputEvent(e[1], e[2], e[3])
    \/ \E e \in CacheSelects, i \in OptionIndexes : ChangeEvent(e[1], e[2], i)

CacheSpec == Init /\ [][CacheNext]_vars

\* Offsets of the pointer in the steering circle: below the middle, and
\* inside the dead zones of both axes
PointerOffsets == { <<2100, 2210>>, <<2150, 2150>> }

\* The events of the joystick model: the channel's events, the pointer on
\* the steering circle and the timer
JoyNext ==
    \/ WsOpen
    \/ RecvNext
    \/ \E o \in PointerOffsets : DragStart(o)
    \/ \E o \in PointerOffsets : Drag(o)
    \/ DragEnd
    \/ TimerTick

JoySpec == Init /\ [][JoyNext]_vars

\* Where the user presses on the steering circle in the sampler model:
\* two points below the middle
SampleOffsets == { <<2100, 2210>>, <<2100, 2310>> }

\* The events of the sampler model: the channel's events, presses on the
\* steering circle that is then held, and the timer
SampleNext ==
    \/ WsOpen
    \/ RecvNext
    \/ \E o \in SampleOffsets : DragStart(o)
    \/ TimerTick

SampleSpec == Init /\ [][SampleNext]_vars

\* The page's templates give every control of a card the disabled
\* attribute: a device cannot be operated before the server has reported it
TemplatesDisabled == elems = [p \in DevicePorts |-> NewCard(p, TRUE)]

InitDisabled == Init /\ TemplatesDisabled

\* Snapshot frames for the model of the start: the first report of a
\* motor, the report of a sensor, and a disconnect notice
StartFrames ==
    { << <<"ev3-ports:outA", << <<"position", Str("5")>> >> >> >>,
      << <<"ev3-ports:in1", << <<"values", Str("3")>> >> >> >>,
      << <<"disconnected_devices", <<"ev3-ports:outA", "ev3-ports:outB">> >> >> }

\* The user's gestures in the model of the start, on the controls of two
\* motors: a slider, the position input and its button
StartInputs ==
    { <<"ev3-ports:outA", "duty_cycle_sp", "42">>,
      <<"ev3-ports:outB", "duty_cycle_sp", "42">> }

StartClicks == { <<"ev3-ports:outA", "position">> }

\* The events of the model of the start
StartNext ==
    \/ WsOpen
    \/ \E f \in StartFrames : RecvFrame(f)
    \/ \E e \in StartInputs : InputEvent(e[1], e[2], e[3])
    \/ \E e \in KeySelects, i \in OptionIndexes : ChangeEvent(e[1], e[2], i)
    \/ \E e \in DeviceTyped : TypeInput(e[1], e[2], e[3])
    \/ \E e \in StartClicks : ButtonClick(e[1], e[2])

StartSpec == InitDisabled /\ [][StartNext]_vars

\* The values the server sends for an attribute shown in a <select>: a
\* list with its selected option, with none (null), with one that is not
\* in the list; a bare list, an empty one; a bare string that is an option
\* of the first list, of the second, of none; null
SelectValues ==
    { Obj(<<"COL-REFLECT", "COL-COLOR">>, Str("COL-COLOR")),
      Obj(<<"COL-REFLECT", "COL-COLOR">>, Null),
      Obj(<<"US-DIST-CM">>, Str("US-DIST-IN")),
      Arr(<<"run-forever", "stop">>),
      Arr(<<>>),
      Str("COL-REFLECT"),
      Str("stop"),
      Str("IR-PROX"),
      Null }

\* The attribute with a SelectAttributeSetter that the frames update
SelectAttributes == { <<"ev3-ports:in1", "mode">> }

\* Snapshot frames with one payload of one attribute
SelectFrames ==
    { << <<a[1], << <<a[2], v>> >> >> >> : a \in SelectAttributes,
                                            v \in SelectValues }

\* The events of the model of the selection lists
SelectNext ==
    \/ WsOpen
    \/ \E f \in SelectFrames : RecvFrame(f)

SelectSpec == Init /\ [][SelectNext]_vars

\* Snapshot frames for the model of the sensor readings, all for one
\* sensor: its driver (colour, touch, ultrasonic), its mode (as a list
\* with the selected option, as a bare string), readings alone, the
\* reading with its mode and no driver, driver, mode and reading in one
\* payload, the reading ahead of the driver, and the disconnect notice
SensorFrames ==
    { << <<"ev3-ports:in1", << <<"driver_name", Str("lego-ev3-color")>> >> >> >>,
      << <<"ev3-ports:in1", << <<"driver_name", Str("lego-ev3-touch")>> >> >> >>,
      << <<"ev3-ports:in1", << <<"driver_name", Str("lego-ev3-us")>> >> >> >>,
      << <<"ev3-ports:in1",
           << <<"mode", Obj(<<"COL-REFLECT", "COL-COLOR">>, Str("COL-COLOR"))>> >> >> >>,
      << <<"ev3-ports:in1", << <<"mode", Str("COL-REFLECT")>> >> >> >>,
      << <<"ev3-ports:in1", << <<"values", Str("1")>> >> >> >>,
      << <<"ev3-ports:in1", << <<"values", Str("9")>> >> >> >>,
      << <<"ev3-ports:in1",
           << <<"mode", Str("US-DIST-CM")>>, <<"values", Str("255")>> >> >> >>,
      << <<"ev3-ports:in1",
           << <<"driver_name", Str("lego-ev3-color")>>,
              <<"mode", Obj(<<"COL-REFLECT", "COL-COLOR">>, Str("COL-COLOR"))>>,
              <<"values", Str("3")>> >> >> >>,
      << <<"ev3-ports:in1",
           << <<"values", Str("0")>>,
              <<"driver_name", Str("lego-ev3-touch")>> >> >> >>,
      << <<"disconnected_devices", <<"ev3-ports:in1">> >> >> }

\* The events of the model of the sensor readings
SensorNext ==
    \/ WsOpen
    \/ \E f \in SensorFrames : RecvFrame(f)

SensorSpec == Init /\ [][SensorNext]_vars

\* Snapshot frames for the model of the senders with a button: a motor's
\* position alone, its command list, and a sensor's reading
ButtonFrames ==
    { << <<"ev3-ports:outA", << <<"position", Str("5")>> >> >> >>,
      << <<"ev3-ports:outA",
           << <<"command", Arr(<<"run-forever", "stop">>)>> >> >> >>,
      << <<"ev3-ports:in1", << <<"values", Str("3")>> >> >> >> }

\* The buttons the user clicks: <<port, attribute name>>
ButtonClicks ==
    { <<"ev3-ports:outA", "position">>,
      <<"ev3-ports:outA", "command">>,
      <<"ev3-ports:in1", "command">> }

\* The events of the model of the senders with a button, with one
\* immediate sender
ButtonNext ==
    \/ WsOpen
    \/ \E f \in ButtonFrames : RecvFrame(f)
    \/ \E e \in DeviceTyped : TypeInput(e[1], e[2], e[3])
    \/ \E e \in DevicePicks, i \in OptionIndexes : PickOption(e[1], e[2], i)
    \/ \E e \in ButtonClicks : ButtonClick(e[1], e[2])
    \/ InputEvent("ev3-ports:outA", "duty_cycle_sp", "42")

ButtonSpec == Init /\ [][ButtonNext]_vars

\* Frame texts that JSON.parse rejects
MalformedFrames ==
    { "next ", "{\"ev3-ports:outA\": {\"position\": " }

\* The events of the model of the undecodable frame: the channel's events,
\* one snapshot frame, the user's edits, and the undecodable frames
MalformedNext ==
    \/ WsOpen
    \/ RecvNext
    \/ \E f \in ChannelFrames : RecvFrame(f)
    \/ \E e \in UpdateInputs : InputEvent(e[1], e[2], e[3])
    \/ \E d \in MalformedFrames : RecvMalformed(d)

MalformedSpec == Init /\ [][MalformedNext]_vars

\* ------------------------------------------------------------------------
\* Reading the histories

RECURSIVE Flatten(_)
\* The concatenation of a sequence of sequences
Flatten(seqs) == IF seqs = <<>> THEN <<>>
                 ELSE seqs[1] \o Flatten(Tail(seqs))

IsPrefix(a, b) == Len(a) <= Len(b) /\ a = SubSeq(b, 1, Len(a))

\* The sendToServer calls whose messages ws.send call j drained
Segment(j) ==
    SubSeq(enqLog,
           IF j = 1 THEN 1 ELSE sendCalls[j - 1].upto + 1,
           sendCalls[j].upto)

\* The messages of the calls of a stretch of enqLog, as JSON.stringify
\* writes them
Written(log) == JSONStringify([i \in 1..Len(log) |-> log[i].msg])

WithoutId(log) == SelectSeq(log, LAMBDA r : r.id = Null)

WithId(log, id) == SelectSeq(log, LAMBDA r : r.id = id)

\* The identification a device message of a frame was enqueued under
IdOf(m) == UpdateIdentification(m.port)

\* The handler that ran last called sendToServer with this message
Enqueued == lastOp.op \in {"input", "change", "click"}
            /\ lastOp.value # Undefined

EnqueuedMessage == UpdateMessage(lastOp.port, lastOp.attrName, lastOp.value)

\* The handler that ran last called ws.send
Sent == Len(sendCalls) > lastOp.pre.calls

\* ------------------------------------------------------------------------
\* Claims about the channel

\* C1 (stop-and-wait): under every interleaving of enqueues, snapshot
\* frames and "next" tokens, at most one ws.send call is made after a
\* "next" token and before the following one, and none before the first.
C1_StopAndWait == sendsSinceNext <= 1

\* C1 witness: a batch was sent after the last token and a later enqueue
\* on the open connection did not send.
C1_Witness ==
    /\ Enqueued
    /\ wsState = "open"
    /\ sendsSinceNext = 1
    /\ ~lastOp.pre.ready
    /\ ~Sent

\* C2: a sendToServer call made while hasReceivedNext is false calls
\* ws.send not at all, leaves hasReceivedNext false and leaves the message
\* queued (appended to the non-overridable queue, or stored under its
\* identification in the overridable one).
C2_EnqueueWhileNotReady ==
    (Enqueued /\ ~lastOp.pre.ready) =>
        /\ ~Sent
        /\ ~hasReceivedNext
        /\ IF UpdateIdentification(lastOp.port) = Null
           THEN /\ nonOverridableWebSocketMessages =
                        Append(lastOp.pre.nonOv, EnqueuedMessage)
                /\ overridableWebSocketMessages = lastOp.pre.ov
           ELSE /\ nonOverridableWebSocketMessages = lastOp.pre.nonOv
                /\ \E i \in 1..Len(overridableWebSocketMessages) :
                        overridableWebSocketMessages[i] =
                            <<lastOp.port, EnqueuedMessage>>

\* C2 witness: the duty-cycle slider of outA was set to "42" on an open
\* connection while hasReceivedNext was false.
C2_Witness ==
    /\ lastOp.op = "input"
    /\ lastOp.port = "ev3-ports:outA"
    /\ lastOp.attrName = "duty_cycle_sp"
    /\ lastOp.value = Str("42")
    /\ wsState = "open"
    /\ ~lastOp.pre.ready
    /\ nonOverridableWebSocketMessages # <<>>

\* The non-overridable messages of all batches transmitted so far
TransmittedNonOverridable ==
    Flatten([j \in 1..Len(sendCalls) |->
                IF sendCalls[j].readyState = "open"
                THEN SelectSeq(sendCalls[j].data, LAMBDA m : IdOf(m) = Null)
                ELSE <<>>])

\* C3: the non-overridable messages transmitted so far are, in order, a
\* prefix of the non-overridable messages enqueued so far; while the
\* connection is not closed the rest of them is exactly the queue, so no
\* such message is dropped or transmitted twice.
C3_NonOverridableKept ==
    /\ IsPrefix(TransmittedNonOverridable, Written(WithoutId(enqLog)))
    /\ wsState # "closed" =>
          TransmittedNonOverridable
              \o JSONStringify(nonOverridableWebSocketMessages)
            = Written(WithoutId(enqLog))

\* C3 witness: two batches were transmitted, they carried non-overridable
\* messages, and another one is waiting in the queue.
C3_Witness ==
    /\ wsState = "open"
    /\ Len(sendCalls) >= 2
    /\ Len(TransmittedNonOverridable) >= 2
    /\ nonOverridableWebSocketMessages # <<>>

\* C4 (coalescing): every batch holds, for each identification used by the
\* sendToServer calls it drained, exactly one message, the one of the last
\* of those calls with that identification.
C4_Coalescing ==
    \A j \in 1..Len(sendCalls) :
        \A k \in 1..Len(Segment(j)) :
            LET id == Segment(j)[k].id
                same == WithId(Segment(j), id)
            IN  id # Null =>
                    SelectSeq(sendCalls[j].data, LAMBDA m : IdOf(m) = id)
                        = Written(<<same[Len(same)]>>)

\* C4 witness: a transmitted batch drained two calls with the same
\* identification and different messages, and a call with another one.
C4_Witness ==
    \E j \in 1..Len(sendCalls) :
        /\ sendCalls[j].readyState = "open"
        /\ \E a, b, c \in 1..Len(Segment(j)) :
              /\ a < b
              /\ Segment(j)[a].id # Null
              /\ Segment(j)[a].id = Segment(j)[b].id
              /\ Segment(j)[a].msg # Segment(j)[b].msg
              /\ Segment(j)[c].id \notin {Null, Segment(j)[a].id}

\* C5 (batch ordering): every batch starts with the non-overridable
\* messages it drained, in the order of their sendToServer calls, and all
\* its overridable messages follow them.
C5_BatchOrdering ==
    \A j \in 1..Len(sendCalls) :
        LET first == Written(WithoutId(Segment(j)))
            data == sendCalls[j].data
        IN  /\ IsPrefix(first, data)
            /\ \A i \in (Len(first) + 1)..Len(data) : IdOf(data[i]) # Null

\* C5 witness: A (no identification), B (identification k), C (no
\* identification) were enqueued in this order and transmitted as [A, C, B].
C5_Witness ==
    \E j \in 1..Len(sendCalls) :
        /\ sendCalls[j].readyState = "open"
        /\ Len(Segment(j)) = 3
        /\ Segment(j)[1].id = Null
        /\ Segment(j)[2].id # Null
        /\ Segment(j)[3].id = Null
        /\ Segment(j)[1].msg # Segment(j)[3].msg
        /\ sendCalls[j].data = Written(<<Segment(j)[1], Segment(j)[3],
                                        Segment(j)[2]>>)

\* C6: a "next" token received while both queues are empty leaves
\* hasReceivedNext true, the queues empty and calls ws.send not at all; if
\* hasReceivedNext was already true the channel state is what it was.
C6_TokenOnEmptyQueues ==
    (lastOp.op = "next" /\ lastOp.pre.nonOv = <<>> /\ lastOp.pre.ov = <<>>) =>
        /\ hasReceivedNext
        /\ ~Sent
        /\ nonOverridableWebSocketMessages = <<>>
        /\ overridableWebSocketMessages = <<>>
        /\ lastOp.pre.ready =>
              /\ hasReceivedNext = lastOp.pre.ready
              /\ nonOverridableWebSocketMessages = lastOp.pre.nonOv
              /\ overridableWebSocketMessages = lastOp.pre.ov
              /\ wsState = lastOp.pre.state

\* C6 witness: a second token arrived while hasReceivedNext was true and
\* both queues were empty.
C6_Witness ==
    /\ lastOp.op = "next"
    /\ lastOp.pre.ready
    /\ lastOp.pre.nonOv = <<>>
    /\ lastOp.pre.ov = <<>>

\* C8 (as claimed): no ws.send call is made once the connection is closed.
C8_NoSendAfterClose ==
    \A j \in 1..Len(sendCalls) : sendCalls[j].readyState # "closed"

\* C9 (as claimed): once the connection is closed both queues are empty.
C9_QueuesEmptyAfterClose ==
    wsState = "closed" =>
        /\ nonOverridableWebSocketMessages = <<>>
        /\ overridableWebSocketMessages = <<>>

\* sendToServer call i was drained into a batch that was transmitted and
\* that holds its message or, when the call had an identification, the
\* message of the last call with that identification drained with it
Delivered(i) ==
    \E j \in 1..Len(sendCalls) :
        /\ sendCalls[j].readyState = "open"
        /\ i <= sendCalls[j].upto
        /\ j > 1 => i > sendCalls[j - 1].upto
        /\ LET same == WithId(Segment(j), enqLog[i].id)
               due == IF enqLog[i].id = Null THEN enqLog[i]
                      ELSE same[Len(same)]
           IN  \E n \in 1..Len(sendCalls[j].data) :
                    <<sendCalls[j].data[n]>> = Written(<<due>>)

\* C7 (liveness): on a connection that stays open and on which every due
\* "next" token arrives, every sendToServer call is eventually followed by
\* the transmission of a batch holding its message, or the later message
\* that replaced it under the same identification.
C7_EventuallyTransmitted ==
    \A i \in 1..MaxEnqueues : (Len(enqLog) >= i) ~> Delivered(i)

\* C7 witness: a message enqueued while hasReceivedNext was false has been
\* transmitted by the handler of a later "next" token.
C7_Witness ==
    /\ lastOp.op = "next"
    /\ ~lastOp.pre.ready
    /\ lastOp.pre.nonOv # <<>>
    /\ Sent
    /\ \A i \in 1..Len(enqLog) : Delivered(i)

\* ------------------------------------------------------------------------
\* Claims about the devices

\* The device at port has no cached value and every element a setter or a
\* sender (input or button) is bound to is disabled
Disconnected(port) ==
    /\ DOMAIN attributeValues[port] = {}
    /\ \A a \in DOMAIN attributeSetters(port) :
          elems[port][attributeSetters(port)[a][2]].disabled
    /\ \A a \in DOMAIN attributeSenders(port) :
          /\ elems[port][attributeSenders(port)[a][2]].disabled
          /\ attributeSenders(port)[a][3] # "" =>
                elems[port][attributeSenders(port)[a][3]].disabled

\* The ports a frame's disconnected_devices lists name and no later entry
\* of the frame updates
DisconnectedBy(entries) ==
    {p \in DevicePorts :
        \E i \in 1..Len(entries) :
            /\ entries[i][1] = "disconnected_devices"
            /\ \E k \in 1..Len(entries[i][2]) : entries[i][2][k] = p
            /\ \A j \in (i + 1)..Len(entries) : entries[j][1] # p}

\* Every port a frame names, as a key or in a disconnected_devices list,
\* is a port of the table
NamesOnlyDevices(entries) ==
    \A i \in 1..Len(entries) :
        IF entries[i][1] = "disconnected_devices"
        THEN \A k \in 1..Len(entries[i][2]) : entries[i][2][k] \in DevicePorts
        ELSE entries[i][1] \in DevicePorts

\* C10: after the handler of a frame, every device its disconnected_devices
\* lists name (motor, sensor or LED, whatever its state was) has empty
\* attributeValues and all its setters and senders disabled.
C10_FrameDisconnects ==
    lastOp.op = "frame" =>
        \A p \in DisconnectedBy(lastOp.entries) : Disconnected(p)

\* The same for the frames that name only ports of the table, where
\* devices[port] is defined at every step of the handler
KnownPortsDisconnected ==
    (lastOp.op = "frame" /\ NamesOnlyDevices(lastOp.entries)) =>
        \A p \in DisconnectedBy(lastOp.entries) : Disconnected(p)

\* One frame disconnected a sensor, a motor and an LED that all had cached
\* values and only enabled elements.
KnownPortsDisconnected_Reached ==
    /\ lastOp.op = "frame"
    /\ NamesOnlyDevices(lastOp.entries)
    /\ \A type \in {"sensor", "motor", "led"} :
          \E p \in DisconnectedBy(lastOp.entries) :
              /\ getDeviceType(p) = type
              /\ DOMAIN lastOp.preAv[p] # {}
              /\ p \in lastOp.preEnabled
              /\ Disconnected(p)

\* ------------------------------------------------------------------------
\* Claims about updateValues

\* Every attribute name of every payload of a frame has a setter in the
\* device the payload is for
KnownAttributes(entries) ==
    \A i \in 1..Len(entries) :
        entries[i][1] \in DevicePorts =>
            \A k \in 1..Len(entries[i][2]) :
                entries[i][2][k][1] \in DOMAIN attributeSetters(entries[i][1])

\* Entry i of a frame is the payload of a device that no
\* disconnected_devices list after it names
UpdateEntry(entries, i) ==
    /\ entries[i][1] \in DevicePorts
    /\ \A j \in (i + 1)..Len(entries) :
          entries[j][1] = "disconnected_devices" =>
              \A k \in 1..Len(entries[j][2]) : entries[j][2][k] # entries[i][1]

\* attributeValues of the device of entry i when its updateValues call
\* starts: empty when a disconnected_devices list before it names the port
PriorValues(entries, i) ==
    IF \E j \in 1..(i - 1) :
          /\ entries[j][1] = "disconnected_devices"
          /\ \E k \in 1..Len(entries[j][2]) : entries[j][2][k] = entries[i][1]
    THEN EmptyObject
    ELSE lastOp.preAv[entries[i][1]]

\* What the claim has a setter return: the selected value or null for a
\* selection list, the raw input otherwise
ReturnedValue(port, attrName, value) ==
    IF attributeSetters(port)[attrName][1] = "SelectAttributeSetter"
    THEN CASE value.t = "obj" -> value.selected
           [] value.t = "arr" -> Null
           [] OTHER -> value
    ELSE value

\* prior overridden, for each attribute of the payload, by the value its
\* setter returned
Overridden(prior, port, values) ==
    [a \in DOMAIN prior \cup {values[k][1] : k \in 1..Len(values)} |->
        IF \E k \in 1..Len(values) : values[k][1] = a
        THEN LET k == CHOOSE n \in 1..Len(values) : values[n][1] = a
             IN  ReturnedValue(port, a, values[k][2])
        ELSE prior[a]]

\* C11: after a frame whose ports and attribute names are all known, the
\* attributeValues of every device it updates equals the prior
\* attributeValues overridden, for each attribute of the payload, by the
\* value the attribute's setter returned; the other attributes keep their
\* cached value.
C11_UpdateOverrides ==
    (/\ lastOp.op = "frame"
     /\ NamesOnlyDevices(lastOp.entries)
     /\ KnownAttributes(lastOp.entries)) =>
        \A i \in 1..Len(lastOp.entries) :
            UpdateEntry(lastOp.entries, i) =>
                attributeValues[lastOp.entries[i][1]] =
                    Overridden(PriorValues(lastOp.entries, i),
                               lastOp.entries[i][1], lastOp.entries[i][2])

\* C11 witness: one frame updated an LED that keeps a cached attribute
\* the payload does not name, a sensor whose mode list came with a
\* selected option and a motor whose command list came bare.
C11_Witness ==
    /\ lastOp.op = "frame"
    /\ NamesOnlyDevices(lastOp.entries)
    /\ KnownAttributes(lastOp.entries)
    /\ \E i \in 1..Len(lastOp.entries) :
          /\ lastOp.entries[i][1] = "led:LEFT"
          /\ "red" \in DOMAIN lastOp.preAv["led:LEFT"]
          /\ attributeValues["led:LEFT"] =
                ("green" :> Str("255") @@ "red" :> Str("7"))
    /\ Get(attributeValues["ev3-ports:in1"], "mode") = Str("COL-COLOR")
    /\ Get(attributeValues["ev3-ports:outA"], "command") = Null
    /\ Get(lastOp.preAv["ev3-ports:outA"], "command") = Undefined

\* C12: after the handler of a frame, whether or not it names a port that
\* is not in the table, the entries for the known ports have been applied:
\* every device the frame updates holds the updated values and every
\* device it lists as disconnected is disconnected.
C12_UnknownPortSkipped ==
    (lastOp.op = "frame" /\ KnownAttributes(lastOp.entries)) =>
        /\ \A i \in 1..Len(lastOp.entries) :
              UpdateEntry(lastOp.entries, i) =>
                  attributeValues[lastOp.entries[i][1]] =
                      Overridden(PriorValues(lastOp.entries, i),
                                 lastOp.entries[i][1], lastOp.entries[i][2])
        /\ \A p \in DisconnectedBy(lastOp.entries) : Disconnected(p)

\* C13: the handler of an undecodable frame leaves hasReceivedNext, both
\* queues, every device's attributeValues and every element as they were,
\* sends nothing, and the next "next" token and snapshot frame are still
\* handled.
C13_MalformedDropped ==
    lastOp.op = "malformed" =>
        /\ hasReceivedNext = lastOp.pre.ready
        /\ nonOverridableWebSocketMessages = lastOp.pre.nonOv
        /\ overridableWebSocketMessages = lastOp.pre.ov
        /\ Len(sendCalls) = lastOp.pre.calls
        /\ attributeValues = lastOp.preAv
        /\ elems = lastOp.preElems
        /\ wsState = "open"
        /\ ENABLED RecvNext
        /\ \A f \in ChannelFrames : ENABLED RecvFrame(f)

\* C13 witness: an undecodable frame was handled while messages were
\* queued, hasReceivedNext was false and a device had cached values.
C13_Witness ==
    /\ lastOp.op = "malformed"
    /\ ~hasReceivedNext
    /\ nonOverridableWebSocketMessages # <<>>
    /\ overridableWebSocketMessages # <<>>
    /\ DOMAIN attributeValues["ev3-ports:outA"] # {}
    /\ Len(sendCalls) > 0

\* Every sender of the device at port is enabled: its input element and,
\* for the senders with a button, the button
SendersEnabled(port) ==
    \A a \in DOMAIN attributeSenders(port) :
        /\ ~elems[port][attributeSenders(port)[a][2]].disabled
        /\ attributeSenders(port)[a][3] # "" =>
              ~elems[port][attributeSenders(port)[a][3]].disabled

\* C14: after a frame naming known ports, for every payload: an attribute
\* name without a setter is not in attributeValues, every attribute with a
\* setter (before or after an unknown one) holds the value its setter
\* returned and its setter's element is enabled, and every sender of the
\* device is enabled.
C14_UnknownAttributeSkipped ==
    (lastOp.op = "frame" /\ NamesOnlyDevices(lastOp.entries)) =>
        \A i \in 1..Len(lastOp.entries) :
            UpdateEntry(lastOp.entries, i) =>
                LET port == lastOp.entries[i][1]
                    values == lastOp.entries[i][2]
                IN  /\ \A k \in 1..Len(values) :
                          IF values[k][1] \in DOMAIN attributeSetters(port)
                          THEN /\ values[k][1] \in DOMAIN attributeValues[port]
                               /\ attributeValues[port][values[k][1]] =
                                     ReturnedValue(port, values[k][1], values[k][2])
                               /\ ~elems[port][attributeSetters(port)[values[k][1]][2]].disabled
                          ELSE values[k][1] \notin DOMAIN attributeValues[port]
                    /\ SendersEnabled(port)

\* C14 witness: a payload with an unknown attribute name between two
\* known ones was applied to a disconnected motor.
C14_Witness ==
    /\ lastOp.op = "frame"
    /\ lastOp.entries =
          << <<"ev3-ports:outA",
               << <<"speed_sp", Str("20")>>,
                  <<"address", Str("ev3-ports:outA")>>,
                  <<"position", Str("6")>> >> >> >>
    /\ \A e \in CardElems("ev3-ports:outA") :
          lastOp.preElems["ev3-ports:outA"][e].disabled
    /\ attributeValues["ev3-ports:outA"] =
          ("speed_sp" :> Str("20") @@ "position" :> Str("6"))
    /\ elems["ev3-ports:outA"]["positionDisplay"].text = "6"
    /\ SendersEnabled("ev3-ports:outA")

\* ------------------------------------------------------------------------
\* Claims about the identification of the devices' messages

\* The messages waiting in the two queues, in the order of a drain
Queued ==
    DrainMessages(nonOverridableWebSocketMessages, overridableWebSocketMessages)

\* The attributes of a motor the claim calls continuous
ContinuousAttributes ==
    {"duty_cycle_sp", "position_sp", "speed_sp", "ramp_up_sp", "ramp_down_sp",
     "time_sp"}

\* C15: the queues never hold two messages of edits of the same
\* continuous attribute of the same motor (such edits collapse to the
\* latest under a key made of port and attribute).
C15_MotorSetpointsCoalesce ==
    \A i, j \in 1..Len(Queued) :
        (/\ i < j
         /\ Queued[i].type = "motor"
         /\ Queued[j].type = "motor"
         /\ Queued[i].port = Queued[j].port
         /\ DOMAIN Queued[i].attributes = DOMAIN Queued[j].attributes) =>
            DOMAIN Queued[i].attributes \cap ContinuousAttributes = {}

\* The sendToServer calls since the last ws.send
Pending ==
    SubSeq(enqLog,
           (IF sendCalls = <<>> THEN 0 ELSE sendCalls[Len(sendCalls)].upto) + 1,
           Len(enqLog))

\* C16: every LED edit is handed to sendToServer with the LED's port as
\* identification; of the LED edits of one port queued since the last
\* transmission exactly one message is queued, the one of the latest edit.
C16_LedKeyIsPort ==
    /\ \A i \in 1..Len(enqLog) :
          enqLog[i].msg.type = "led" => enqLog[i].id = Str(enqLog[i].msg.port)
    /\ \A p \in DevicePorts :
          LET edits == SelectSeq(Pending,
                           LAMBDA r : r.msg.type = "led" /\ r.msg.port = p)
              queued == SelectSeq(Queued,
                           LAMBDA m : m.type = "led" /\ m.port = p)
          IN  IF edits = <<>> THEN queued = <<>>
              ELSE queued = <<edits[Len(edits)].msg>>

\* C16 witness: the green and then the red slider of one LED were edited
\* while hasReceivedNext was false; only the red edit is queued.
C16_Witness ==
    /\ lastOp.op = "input"
    /\ ~lastOp.pre.ready
    /\ Len(Pending) >= 2
    /\ Pending[Len(Pending) - 1].msg =
          UpdateMessage("led:LEFT", "green", Str("42"))
    /\ Pending[Len(Pending)].msg = UpdateMessage("led:LEFT", "red", Str("7"))
    /\ overridableWebSocketMessages =
          << <<"led:LEFT", UpdateMessage("led:LEFT", "red", Str("7"))>> >>

\* ------------------------------------------------------------------------
\* Claims about onUpdateValue

\* The step is the listener of a sender that called onUpdateValue
UpdateValueStep ==
    /\ lastOp'.op \in {"input", "change", "click"}
    /\ lastOp'.value # Undefined
    /\ (lastOp' # lastOp \/ enqLog' # enqLog)

\* The step is the handler of a frame that updates attribute a of the
\* device at port p or lists p as disconnected
ServerStep(p, a) ==
    /\ lastOp'.op = "frame"
    /\ \E i \in 1..Len(lastOp'.entries) :
          \/ /\ lastOp'.entries[i][1] = p
             /\ \E k \in 1..Len(lastOp'.entries[i][2]) :
                   lastOp'.entries[i][2][k][1] = a
          \/ /\ lastOp'.entries[i][1] = "disconnected_devices"
             /\ \E k \in 1..Len(lastOp'.entries[i][2]) :
                   lastOp'.entries[i][2][k] = p

\* C17: a listener that calls onUpdateValue(attrName, newValue) leaves
\* attributeValues[attrName] = newValue and makes exactly one sendToServer
\* call, with {type, port, attributes: {attrName: newValue}}, whatever
\* hasReceivedNext is; a cached value changes only in such a listener for
\* that attribute or in the handler of a frame that updates the attribute
\* or disconnects the device.
C17_EditCachedAndEnqueued ==
    [][/\ UpdateValueStep =>
            /\ Get(attributeValues'[lastOp'.port], lastOp'.attrName) =
                  lastOp'.value
            /\ Len(enqLog') = Len(enqLog) + 1
            /\ enqLog'[Len(enqLog')].msg =
                  [type |-> getDeviceType(lastOp'.port),
                   port |-> lastOp'.port,
                   attributes |-> (lastOp'.attrName :> lastOp'.value)]
       /\ ~UpdateValueStep => enqLog' = enqLog
       /\ \A p \in DevicePorts :
            \A a \in DOMAIN attributeValues[p] \cup DOMAIN attributeValues'[p] :
                Get(attributeValues[p], a) # Get(attributeValues'[p], a) =>
                    \/ ServerStep(p, a)
                    \/ /\ UpdateValueStep
                       /\ lastOp'.port = p
                       /\ lastOp'.attrName = a]_vars

\* C17 witness: edits of a motor and of a sensor were cached, one while
\* hasReceivedNext was true and one while it was false, over the values
\* the server had sent.
C17_Witness ==
    /\ lastOp.op = "change"
    /\ lastOp.port = "ev3-ports:in1"
    /\ ~lastOp.pre.ready
    /\ elems["ev3-ports:in1"]["mode"].options = <<"COL-REFLECT", "COL-COLOR">>
    /\ attributeValues["ev3-ports:in1"]["mode"] = Str("COL-REFLECT")
    /\ attributeValues["ev3-ports:outA"] = ("duty_cycle_sp" :> Str("42"))
    /\ elems["ev3-ports:outA"]["duty_cycle_sp"].value = "42"
    /\ Len(sendCalls) = 1
    /\ sendCalls[1].data =
          <<UpdateMessage("ev3-ports:outA", "duty_cycle_sp", Str("42"))>>
    /\ nonOverridableWebSocketMessages =
          <<UpdateMessage("ev3-ports:in1", "mode", Str("COL-REFLECT"))>>

\* ------------------------------------------------------------------------
\* Claims about the frames sent to the server

\* C18: every element of every array handed to ws.send has a type, a port
\* and an attributes mapping, whether a device's sender or the joystick
\* timer enqueued it.
C18_MessageShape ==
    \A j \in 1..Len(sendCalls) :
        \A n \in 1..Len(sendCalls[j].data) :
            {"type", "port", "attributes"} \subseteq DOMAIN sendCalls[j].data[n]

\* C19: after a frame naming known ports, every sender of every device
\* the frame has a payload for is enabled, whatever the payload holds (no
\* attribute, unknown attributes only, or attributes of other senders).
C19_AllSendersEnabled ==
    (lastOp.op = "frame" /\ NamesOnlyDevices(lastOp.entries)) =>
        \A i \in 1..Len(lastOp.entries) :
            UpdateEntry(lastOp.entries, i) =>
                SendersEnabled(lastOp.entries[i][1])

\* C19 witness: an empty payload enabled every sender of a motor whose
\* elements were all disabled.
C19_Witness ==
    /\ lastOp.op = "frame"
    /\ lastOp.entries = << <<"ev3-ports:outA", <<>> >> >>
    /\ \A e \in CardElems("ev3-ports:outA") :
          lastOp.preElems["ev3-ports:outA"][e].disabled
    /\ SendersEnabled("ev3-ports:outA")
    /\ attributeValues["ev3-ports:outA"] = EmptyObject

\* ------------------------------------------------------------------------
\* Claims about the senders

\* The step edits the input of a sender with a button
EditStep == lastOp'.op \in {"type", "pick"}

\* The step is an edit of the input of an immediate sender
ImmediateStep == lastOp'.op \in {"input", "change"}

\* The step is a click on the button of a sender
ClickStep == lastOp'.op = "click"

\* One onUpdateValue(attrName, value) call of the device at port was made
\* in the step
CalledOnce(port, attrName, value) ==
    /\ Len(enqLog') = Len(enqLog) + 1
    /\ enqLog'[Len(enqLog')].msg = UpdateMessage(port, attrName, value)
    /\ Get(attributeValues'[port], attrName) = value

\* C20: editing the input of a sender with a button makes no
\* sendToServer call and leaves attributeValues alone; every click on the
\* button makes one onUpdateValue call with the value the input has then
\* (the text typed, the option selected); every edit of the input of an
\* immediate sender makes one onUpdateValue call.
C20_ConfirmOnTrigger ==
    [][/\ EditStep => enqLog' = enqLog /\ attributeValues' = attributeValues
       /\ ClickStep =>
            LET sender == attributeSenders(lastOp'.port)[lastOp'.attrName]
                el == elems[lastOp'.port][sender[2]]
            IN  IF sender[1] = "InputAttributeSenderOnButton"
                THEN CalledOnce(lastOp'.port, lastOp'.attrName, Str(el.value))
                ELSE /\ el.selectedIndex \in 1..Len(el.options)
                     /\ CalledOnce(lastOp'.port, lastOp'.attrName,
                                   Str(el.options[el.selectedIndex]))
       /\ ImmediateStep =>
            CalledOnce(lastOp'.port, lastOp'.attrName, lastOp'.value)]_vars

\* The same, for the clicks made while the sender's input has a value to
\* read: any text of an <input>, a selected option of a <select>
ConfirmWithValue ==
    [][/\ EditStep => enqLog' = enqLog /\ attributeValues' = attributeValues
       /\ (ClickStep /\ lastOp'.value # Undefined) =>
            CalledOnce(lastOp'.port, lastOp'.attrName, lastOp'.value)
       /\ ImmediateStep =>
            CalledOnce(lastOp'.port, lastOp'.attrName, lastOp'.value)]_vars

\* ------------------------------------------------------------------------
\* Claims about the drain

\* The identifications of the calls of a stretch of enqLog
IdsOf(log) == {log[i].id : i \in 1..Len(log)} \ {Null}

\* The message of the last call of a stretch of enqLog with an
\* identification
LatestOf(log, id) == WithId(log, id)[Len(WithId(log, id))].msg

\* C21: the handler of a "next" token that finds a queue non-empty makes
\* exactly one ws.send call, on the open connection, whose array holds the
\* queued non-overridable messages followed by the values of the
\* overridable queue and nothing else, that is every message enqueued
\* without identification since the last transmission and the latest
\* message of every identification used since; it leaves both queues empty
\* and hasReceivedNext false.
C21_TokenDrains ==
    (lastOp.op = "next" /\ (lastOp.pre.nonOv # <<>> \/ lastOp.pre.ov # <<>>)) =>
        LET batch == sendCalls[Len(sendCalls)]
            drained == Segment(Len(sendCalls))
            nonOv == Written(WithoutId(drained))
        IN  /\ Len(sendCalls) = lastOp.pre.calls + 1
            /\ batch.readyState = "open"
            /\ batch.data =
                  JSONStringify(lastOp.pre.nonOv
                                \o [i \in 1..Len(lastOp.pre.ov) |->
                                        lastOp.pre.ov[i][2]])
            /\ Len(batch.data) = Len(nonOv) + Cardinality(IdsOf(drained))
            /\ SubSeq(batch.data, 1, Len(nonOv)) = nonOv
            /\ \A id \in IdsOf(drained) :
                  \E n \in (Len(nonOv) + 1)..Len(batch.data) :
                      <<batch.data[n]>> = JSONStringify(<<LatestOf(drained, id)>>)
            /\ nonOverridableWebSocketMessages = <<>>
            /\ overridableWebSocketMessages = <<>>
            /\ ~hasReceivedNext

\* C21 witness: a token found a non-overridable message and an overridable
\* one, enqueued over an older message of the same LED, and its batch
\* holds the two of them.
C21_Witness ==
    /\ lastOp.op = "next"
    /\ lastOp.pre.nonOv # <<>>
    /\ lastOp.pre.ov # <<>>
    /\ Len(Segment(Len(sendCalls))) = 3
    /\ Len(sendCalls[Len(sendCalls)].data) = 2
    /\ ~hasReceivedNext

\* The handler that ran last called sendToServer: the listener of a
\* sender, or the joystick timer with a sample due
EnqueueOp ==
    \/ Enqueued
    \/ lastOp.op = "timer" /\ lastOp.sent

\* C22: a sendToServer call made while hasReceivedNext is true calls
\* ws.send once, with an array that holds the call's message, and leaves
\* both queues empty and hasReceivedNext false; a call that sends is the
\* first ws.send since the last "next" token, so that a second call before
\* the following token only queues; and ws.send is called by no handler
\* other than the one of a "next" token and such a call.
C22_EnqueueWhileReady ==
    /\ (EnqueueOp /\ lastOp.pre.ready) =>
          /\ Len(sendCalls) = lastOp.pre.calls + 1
          /\ sendCalls[Len(sendCalls)].upto = Len(enqLog)
          /\ \E n \in 1..Len(sendCalls[Len(sendCalls)].data) :
                <<sendCalls[Len(sendCalls)].data[n]>> =
                    JSONStringify(<<enqLog[Len(enqLog)].msg>>)
          /\ nonOverridableWebSocketMessages = <<>>
          /\ overridableWebSocketMessages = <<>>
          /\ ~hasReceivedNext
    /\ (EnqueueOp /\ Sent) => sendsSinceNext = 1
    /\ (EnqueueOp /\ ~lastOp.pre.ready) => ~Sent
    /\ (lastOp.op # "onload" /\ Sent) =>
          \/ lastOp.op = "next"
          \/ EnqueueOp /\ lastOp.pre.ready

\* C22 witness: after a first batch, a token found the queues empty and
\* the following edit, made on the open connection, was sent at once.
C22_Witness ==
    /\ Enqueued
    /\ lastOp.pre.ready
    /\ lastOp.pre.state = "open"
    /\ Sent
    /\ Len(sendCalls) >= 2
    /\ sendCalls[Len(sendCalls)].data = JSONStringify(<<EnqueuedMessage>>)
    /\ ~hasReceivedNext

\* C23: between event handlers, hasReceivedNext is true exactly when a
\* "next" token has been received and ws.send has not been called since
\* the most recent one (by its own handler or by a later sendToServer).
C23_ReadyMeaning ==
    hasReceivedNext <=> (nextReceived /\ sendsSinceNext = 0)

\* C23 witness: hasReceivedNext is true again after a batch was sent and
\* acknowledged by a token that found the queues empty.
C23_Witness ==
    /\ hasReceivedNext
    /\ nextReceived
    /\ sendsSinceNext = 0
    /\ Len(sendCalls) >= 1
    /\ lastOp.op = "next"
    /\ ~lastOp.pre.ready

\* ------------------------------------------------------------------------
\* Claims about the cache of a device

\* C24: in every reachable state, under every interleaving of snapshot
\* frames (updateValues, onDeviceDisconnected) and senders' listeners
\* (onUpdateValue), the keys of every device's attributeValues are
\* attribute names of its attributeSetters.
C24_KeysHaveSetters ==
    \A p \in DevicePorts :
        DOMAIN attributeValues[p] \subseteq DOMAIN attributeSetters(p)

\* C24 witness: a payload with an attribute name the motor has no setter
\* for was applied after an edit of an LED's slider was cached; both
\* devices hold values.
C24_Witness ==
    /\ lastOp.op = "frame"
    /\ \E i \in 1..Len(lastOp.entries) :
          /\ lastOp.entries[i][1] = "ev3-ports:outA"
          /\ \E k \in 1..Len(lastOp.entries[i][2]) :
                lastOp.entries[i][2][k][1]
                    \notin DOMAIN attributeSetters("ev3-ports:outA")
    /\ "speed_sp" \in DOMAIN attributeValues["ev3-ports:outA"]
    /\ "duty_cycle_sp" \in DOMAIN attributeValues["ev3-ports:outA"]
    /\ "red" \in DOMAIN attributeValues["led:LEFT"]

\* ------------------------------------------------------------------------
\* Claims about the joystick sampler

\* The identification the timer callback passes to sendToServer
JoystickKey == "rc-joystick:set-pos"

IsSample(m) == m.type = "rc-joystick:set-pos"

\* The timer callback that ran last enqueued a sample
Sampled == lastOp.op = "timer" /\ lastOp.sent

\* C25: every message the timer callback enqueues is enqueued under the
\* identification "rc-joystick:set-pos"; the queues never hold more than
\* one such message and never in the non-overridable queue; a sample taken
\* while hasReceivedNext is false is stored in place of the one queued
\* before and the callback completes without sending; the callback is
\* never held back by the channel's state; and a queued sample is in the
\* batch that the handler of the next "next" token sends.
C25_SamplerCoalesces ==
    /\ \A i \in 1..Len(enqLog) :
          IsSample(enqLog[i].msg) => enqLog[i].id = Str(JoystickKey)
    /\ \A n \in 1..Len(nonOverridableWebSocketMessages) :
          ~IsSample(nonOverridableWebSocketMessages[n])
    /\ Cardinality({n \in 1..Len(overridableWebSocketMessages) :
                        IsSample(overridableWebSocketMessages[n][2])}) <= 1
    /\ (Sampled /\ ~lastOp.pre.ready) =>
          /\ ~Sent
          /\ counter = 0
          /\ ~hasPosChanged
          /\ SelectSeq(overridableWebSocketMessages,
                       LAMBDA e : e[1] = JoystickKey \/ IsSample(e[2]))
                = << <<JoystickKey, enqLog[Len(enqLog)].msg>> >>
    /\ (counter < MaxCounter /\ Len(enqLog) < MaxSamples) => ENABLED TimerTick
    /\ (lastOp.op = "next"
        /\ \E n \in 1..Len(lastOp.pre.ov) : lastOp.pre.ov[n][1] = JoystickKey) =>
          /\ Sent
          /\ sendCalls[Len(sendCalls)].readyState = "open"
          /\ \E n \in 1..Len(lastOp.pre.ov), k \in 1..Len(sendCalls[Len(sendCalls)].data) :
                /\ lastOp.pre.ov[n][1] = JoystickKey
                /\ sendCalls[Len(sendCalls)].data[k] = lastOp.pre.ov[n][2]
          /\ overridableWebSocketMessages = <<>>

\* C25 witness: two samples with different positions were taken while
\* hasReceivedNext was false, and the batch of the next token holds the
\* second one alone.
C25_Witness ==
    /\ lastOp.op = "next"
    /\ ~lastOp.pre.ready
    /\ Len(enqLog) = 2
    /\ enqLog[1].msg # enqLog[2].msg
    /\ lastOp.pre.ov = << <<JoystickKey, enqLog[2].msg>> >>
    /\ Len(sendCalls) = 1
    /\ sendCalls[1].data = <<enqLog[2].msg>>

\* ------------------------------------------------------------------------
\* Claims about the start of the connection

\* C26: when the "open" event has been handled, hasReceivedNext is false
\* and both queues are empty, whatever edits and joystick samples were
\* made between the load of the page and the event.
C26_OpenStartsEmpty ==
    lastOp.op = "open" =>
        /\ ~hasReceivedNext
        /\ nonOverridableWebSocketMessages = <<>>
        /\ overridableWebSocketMessages = <<>>

\* The part of it that holds: hasReceivedNext is false until the first
\* "next" token, and nothing is sent before the connection is open
NotReadyAtOpen ==
    wsState = "connecting" => ~hasReceivedNext /\ sendCalls = <<>>

\* The device at port is as its constructor left it: no cached value,
\* every element of its card as cloned and reset by the setters
JustConstructed(port) ==
    /\ attributeValues[port] = EmptyObject
    /\ elems[port] = NewCard(port, TRUE)

\* The step changes the cache or the card of the device at port
DeviceChanged(port) ==
    \/ attributeValues'[port] # attributeValues[port]
    \/ elems'[port] # elems[port]

\* The step is the handler of a frame with a payload for the device at port
SnapshotStep(port) ==
    /\ lastOp'.op = "frame"
    /\ \E i \in 1..Len(lastOp'.entries) : lastOp'.entries[i][1] = port

SelectUpdate ==
    /\ lastOp.op = "frame"
    /\ Len(lastOp.entries) = 1
    /\ lastOp.entries[1][1] \in DevicePorts
    /\ Len(lastOp.entries[1][2]) = 1
    /\ lastOp.entries[1][2][1][1] \in DOMAIN attributeSetters(lastOp.entries[1][1])
    /\ attributeSetters(lastOp.entries[1][1])[lastOp.entries[1][2][1][1]][1]
          = "SelectAttributeSetter"

\* C28: after updateValues has applied a value to an attribute with a
\* SelectAttributeSetter, the cached value is never a list; for
\* {values, selected} the <select> holds values and selected is cached;
\* for a bare list the <select> holds the list and null is cached; for a
\* bare string the options are as before, the selection is the first
\* option with that text (as before when there is none) and the string is
\* cached; for null the <select> is empty and null is cached.
C28_SelectCachesSelected ==
    SelectUpdate =>
        LET port == lastOp.entries[1][1]
            attrName == lastOp.entries[1][2][1][1]
            value == lastOp.entries[1][2][1][2]
            before == lastOp.preElems[port][attributeSetters(port)[attrName][2]]
            after == elems[port][attributeSetters(port)[attrName][2]]
            cached == attributeValues[port][attrName]
        IN  /\ cached.t \in {"str", "null"}
            /\ value.t = "obj" =>
                  /\ after.options = value.values
                  /\ cached = value.selected
            /\ value.t = "arr" =>
                  /\ after.options = value.values
                  /\ cached = Null
            /\ value.t = "str" =>
                  /\ after.options = before.options
                  /\ cached = value
                  /\ IF \E i \in 1..Len(before.options) :
                            before.options[i] = value.s
                     THEN /\ after.options[after.selectedIndex] = value.s
                          /\ \A j \in 1..(after.selectedIndex - 1) :
                                before.options[j] # value.s
                     ELSE after.selectedIndex = before.selectedIndex
            /\ value.t = "null" =>
                  /\ after.options = <<>>
                  /\ cached = Null

\* C28 witness: a bare string moved the selection of a list of two options
\* sent before, from the second option to the first.
C28_Witness ==
    /\ SelectUpdate
    /\ lastOp.entries[1][1] = "ev3-ports:in1"
    /\ lastOp.entries[1][2][1][2] = Str("COL-REFLECT")
    /\ lastOp.preElems["ev3-ports:in1"]["mode"].options =
          <<"COL-REFLECT", "COL-COLOR">>
    /\ lastOp.preElems["ev3-ports:in1"]["mode"].selectedIndex = 2
    /\ elems["ev3-ports:in1"]["mode"].options = <<"COL-REFLECT", "COL-COLOR">>
    /\ elems["ev3-ports:in1"]["mode"].selectedIndex = 1
    /\ attributeValues["ev3-ports:in1"]["mode"] = Str("COL-REFLECT")

\* The frame handled last had one payload, for a sensor, with a reading
ReadingUpdate ==
    /\ lastOp.op = "frame"
    /\ Len(lastOp.entries) = 1
    /\ lastOp.entries[1][1] \in DevicePorts
    /\ getDeviceType(lastOp.entries[1][1]) = "sensor"
    /\ \E k \in 1..Len(lastOp.entries[1][2]) :
          lastOp.entries[1][2][k][1] = "values"

\* The place of the reading in the payload
ReadingAt == CHOOSE k \in 1..Len(lastOp.entries[1][2]) :
                lastOp.entries[1][2][k][1] = "values"

\* What the cache of the sensor holds for an attribute when the setter of
\* the reading is called: the value of an earlier entry of the payload,
\* the value cached before the frame otherwise
CachedAtReading(attrName) ==
    LET values == lastOp.entries[1][2]
    IN  IF \E j \in 1..(ReadingAt - 1) : values[j][1] = attrName
        THEN LET j == CHOOSE n \in 1..(ReadingAt - 1) : values[n][1] = attrName
             IN  ReturnedValue(lastOp.entries[1][1], attrName, values[j][2])
        ELSE Get(lastOp.preAv[lastOp.entries[1][1]], attrName)

\* C29: after a payload with a reading has been applied to a sensor, the
\* handler has not thrown, whatever the cache held; the reading is cached
\* as it came; its element is enabled and shows the entry of the colour
\* table when the cached driver is the colour sensor in mode COL-COLOR and
\* the table has the reading, the entry of the touch table when the cached
\* driver is the touch sensor and the table has the reading, and the
\* reading itself in every other case (no driver or no mode cached
\* included).
C29_ReadingTranslated ==
    ReadingUpdate =>
        LET port == lastOp.entries[1][1]
            raw == lastOp.entries[1][2][ReadingAt][2]
            shown == elems[port]["values"]
            driver == CachedAtReading("driver_name")
            mode == CachedAtReading("mode")
        IN  /\ ~lastOp.threw
            /\ attributeValues[port]["values"] = raw
            /\ ~shown.disabled
            /\ \A k \in 1..Len(lastOp.entries[1][2]) :
                  /\ lastOp.entries[1][2][k][1] \in DOMAIN attributeValues[port]
                  /\ ~elems[port][attributeSetters(port)
                                    [lastOp.entries[1][2][k][1]][2]].disabled
            /\ IF /\ driver = Str("lego-ev3-color")
                  /\ mode = Str("COL-COLOR")
                  /\ raw.s \in DOMAIN ColorTable
               THEN shown.text = ColorTable[raw.s]
               ELSE IF driver = Str("lego-ev3-touch") /\ raw.s \in DOMAIN TouchTable
               THEN shown.text = TouchTable[raw.s]
               ELSE shown.text = raw.s

\* C29 witness: mode "US-DIST-CM" and reading "255" were applied to a
\* sensor with an empty cache; both are cached as they came, the reading
\* is shown as it came and both setters' elements are enabled.
C29_Witness ==
    /\ lastOp.op = "frame"
    /\ lastOp.entries =
          << <<"ev3-ports:in1",
               << <<"mode", Str("US-DIST-CM")>>, <<"values", Str("255")>> >> >> >>
    /\ lastOp.preAv["ev3-ports:in1"] = EmptyObject
    /\ attributeValues["ev3-ports:in1"] =
          ("mode" :> Str("US-DIST-CM") @@ "values" :> Str("255"))
    /\ elems["ev3-ports:in1"]["values"].text = "255"
    /\ ~elems["ev3-ports:in1"]["values"].disabled
    /\ ~elems["ev3-ports:in1"]["mode"].disabled

\* A reading was shown through the colour table, one through the touch
\* table with the driver cached before the frame
ReadingTranslated_Reached ==
    /\ ReadingUpdate
    /\ \/ elems["ev3-ports:in1"]["values"].text = ColorTable["3"]
       \/ /\ elems["ev3-ports:in1"]["values"].text = TouchTable["1"]
          /\ Get(lastOp.preAv["ev3-ports:in1"], "driver_name") =
                Str("lego-ev3-touch")

=============================================================================
